---------------------------- MODULE Spec2Model ----------------------------
(***************************************************************************)
(* Release-transition state machine of wb-update-manager.                  *)
(*                                                                         *)
(* Strings are sequences of tokens: the characters that the code treats    *)
(* specially (" ", "/", "#") are tokens of their own, every other token    *)
(* stands for a run of ordinary characters.  A file is a record            *)
(* [exists, lines]; a process is a small interpreter over the list of      *)
(* primitive operations (`code') that remain to be executed, a stack of    *)
(* try/with frames, the pending exception and the atexit registry.         *)
(***************************************************************************)
EXTENDS Integers, Sequences, FiniteSets, TLC

(***************************************************************************)
(* Bounds of the model                                                     *)
(***************************************************************************)
\* exit statuses a failing external command may report: 1..MaxExitCode
MaxExitCode == 2
\* failures and interrupts the environment inflicts on one process
MaxFaults == 2
\* starts of the tool by the tool that are followed
MaxLaunches == 2

(***************************************************************************)
(* Program constants                                                       *)
(***************************************************************************)
RETCODE_OK == 0
RETCODE_USER_ABORT == 1
RETCODE_FAULT == 2
RETCODE_NO_TARGET == 3
RETCODE_EINVAL == 22

WB_ORIGIN == "wirenboard"
WB_SOURCES_LIST_FILENAME == "/etc/apt/sources.list.d/wirenboard.list"
WB_RELEASE_APT_PREFERENCES_FILENAME == "/etc/apt/preferences.d/20wb-release"
WB_TEMP_UPGRADE_PREFERENCES_FILENAME == "/etc/apt/preferences.d/00wb-release-upgrade-temp"
DEFAULT_REPO_URL == <<"http", ":", "/", "/", "deb.wirenboard.com", "/">>
TEMP_UPGRADE_SOURCES_LIST == "/etc/apt/sources.list.d/000wb-bullseye-upgrade.list"
TEMP_UPGRADE_APT_PREFERENCES == "/etc/apt/preferences.d/000wb-bullseye-upgrade"
PROGRESS_FLAG == "/var/lib/wb-debian-release-update-in-progress"
PROGRESS_BANNER == "/etc/update-motd.d/99-wb-debian-release-updated"
UPDATE_DONE_FLAG == "/run/wb-debian-release-updated"
TEMP_APT_PREFERENCE_FOR_TOOL == "/etc/apt/preferences.d/001wb-update-tool-stretch"
TOOL_UPDATE_DONE_FLAG == "/run/wb-release-tool-updated"
NO_PRELIMINARY_UPDATE_ARGNAME == "--no-preliminary-update"

\* release.py 38-41
APT_SOURCE_LIST_OLD_PATH == "/etc/apt/sources.list.d.old/"
APT_SOURCE_LIST_FILES == <<"stretch-backports.list", "debian-upstream.list">>
TEMP_DEBIAN_UPSTREAM_LIST == "/etc/apt/sources.list.d/debian-upstream-bullseye-temp.list"

\* APT_SOURCE_LIST_PATH + file
InSourceListPath(file) ==
    IF file = "stretch-backports.list"
    THEN "/etc/apt/sources.list.d/stretch-backports.list"
    ELSE "/etc/apt/sources.list.d/debian-upstream.list"

\* APT_SOURCE_LIST_OLD_PATH + file
InSourceListOldPath(file) ==
    IF file = "stretch-backports.list"
    THEN "/etc/apt/sources.list.d.old/stretch-backports.list"
    ELSE "/etc/apt/sources.list.d.old/debian-upstream.list"

\* An optional string argument that was not given (None) is the empty
\* string: the code only ever tests such arguments for truth.
NoString == <<>>

(***************************************************************************)
(* String primitives (str.strip, str.rstrip, str.partition, str.split)     *)
(***************************************************************************)
Whitespace == {" ", "\t"}

RECURSIVE LStrip(_, _)
LStrip(s, chars) ==
    IF s # <<>> /\ Head(s) \in chars THEN LStrip(Tail(s), chars) ELSE s

RECURSIVE RStrip(_, _)
RStrip(s, chars) ==
    IF s # <<>> /\ s[Len(s)] \in chars
    THEN RStrip(SubSeq(s, 1, Len(s) - 1), chars)
    ELSE s

Strip(s, chars) == LStrip(RStrip(s, chars), chars)

\* index of the first occurrence of token c in s, 0 when there is none
FirstIndex(s, c) ==
    IF \E i \in 1..Len(s) : s[i] = c
    THEN CHOOSE i \in 1..Len(s) : s[i] = c /\ \A j \in 1..(i - 1) : s[j] # c
    ELSE 0

\* s.partition(c)[0]
PartitionHead(s, c) ==
    IF FirstIndex(s, c) = 0 THEN s ELSE SubSeq(s, 1, FirstIndex(s, c) - 1)

\* s.split(sep, maxsplit=n)
RECURSIVE Split(_, _, _)
Split(s, sep, n) ==
    IF n = 0 \/ FirstIndex(s, sep) = 0
    THEN <<s>>
    ELSE <<SubSeq(s, 1, FirstIndex(s, sep) - 1)>>
         \o Split(SubSeq(s, FirstIndex(s, sep) + 1, Len(s)), sep, n - 1)

\* s.startswith(p)
StartsWith(s, p) == Len(s) >= Len(p) /\ SubSeq(s, 1, Len(p)) = p

(***************************************************************************)
(* Files                                                                   *)
(***************************************************************************)
Absent == [exists |-> FALSE, lines |-> <<>>]
File(lines) == [exists |-> TRUE, lines |-> lines]
\* open(filename, 'w') has truncated the file and the write did not happen
Truncated == File(<<>>)

(***************************************************************************)
(* State model: release.py 21-160                                          *)
(***************************************************************************)
SystemState(suite, target, repo_prefix, consistent) ==
    [suite |-> suite, target |-> target, repo_prefix |-> repo_prefix,
     consistent |-> consistent]

\* the first line that, stripped of its comment, starts with 'deb http'
\* (<<>> when there is none)
RECURSIVE DebLine(_)
DebLine(lines) ==
    IF lines = <<>> THEN <<>>
    ELSE LET line == RStrip(PartitionHead(Head(lines), "#"), Whitespace)
         IN  IF StartsWith(line, <<"deb", " ", "http">>) THEN line
             ELSE DebLine(Tail(lines))

\* result: [raises |-> name of the exception or "", suite |-> the suite]
read_apt_sources_list_suite(file) ==
    IF file.exists /\ DebLine(file.lines) # <<>>
    THEN LET fields == Split(DebLine(file.lines), " ", 4)
         IN  IF Len(fields) >= 3
             THEN [raises |-> "", suite |-> fields[3]]
             ELSE [raises |-> "IndexError", suite |-> <<>>]
    ELSE [raises |-> "NoSuiteInfoError", suite |-> <<>>]

get_current_state(release_info, sources_file) ==
    LET r == read_apt_sources_list_suite(sources_file)
        consistent == IF r.raises = "NoSuiteInfoError" THEN FALSE
                      ELSE release_info.suite = r.suite
    IN  SystemState(release_info.suite, release_info.target,
                    release_info.repo_prefix, consistent)

\* `if prefix:' / `if target_release:' : None and '' are both false
Truthy(s) == s # NoString

\* a target computation in which --reset-url silently wins over --prefix
get_target_state_reset_wins(old_state, reset_url, prefix, target_release) ==
    LET new_prefix == IF reset_url THEN <<>>
                      ELSE IF Truthy(prefix) THEN prefix
                      ELSE old_state.repo_prefix
        new_suite == IF Truthy(target_release) THEN target_release
                     ELSE old_state.suite
    IN  [raises |-> "",
         state |-> SystemState(new_suite, old_state.target,
                               Strip(new_prefix, {" ", "/"}), TRUE)]

\* a target computation that files the release under a path of its own
get_target_state_moves_target(old_state, reset_url, prefix, target_release) ==
    IF reset_url /\ Truthy(prefix)
    THEN [raises |-> "ImpossibleUpdateError", state |-> old_state]
    ELSE LET new_prefix == IF reset_url THEN <<>>
                           ELSE IF Truthy(prefix) THEN prefix
                           ELSE old_state.repo_prefix
             new_suite == IF Truthy(target_release) THEN target_release
                          ELSE old_state.suite
         IN  [raises |-> "",
              state |-> SystemState(new_suite,
                                    Split(old_state.target, "/", 1)[1]
                                        \o <<"/">> \o new_suite,
                                    Strip(new_prefix, {" ", "/"}), TRUE)]

\* a target computation that carries the observed consistency over
get_target_state_keeps_consistent(old_state, reset_url, prefix, target_release) ==
    IF reset_url /\ Truthy(prefix)
    THEN [raises |-> "ImpossibleUpdateError", state |-> old_state]
    ELSE LET new_prefix == IF reset_url THEN <<>>
                           ELSE IF Truthy(prefix) THEN prefix
                           ELSE old_state.repo_prefix
             new_suite == IF Truthy(target_release) THEN target_release
                          ELSE old_state.suite
         IN  [raises |-> "",
              state |-> SystemState(new_suite, old_state.target,
                                    Strip(new_prefix, {" ", "/"}),
                                    old_state.consistent)]

\* result: [raises |-> name of the exception or "", state |-> the new state]
get_target_state(old_state, reset_url, prefix, target_release) ==
    IF reset_url /\ Truthy(prefix)
    THEN [raises |-> "ImpossibleUpdateError", state |-> old_state]
    ELSE LET new_prefix == IF reset_url THEN <<>>
                           ELSE IF Truthy(prefix) THEN prefix
                           ELSE old_state.repo_prefix
             new_suite == IF Truthy(target_release) THEN target_release
                          ELSE old_state.suite
         IN  [raises |-> "",
              state |-> SystemState(new_suite, old_state.target,
                                    Strip(new_prefix, {" ", "/"}), TRUE)]

make_full_repo_url(state, base_url) ==
    Strip(base_url, {" ", "/"})
    \o RStrip(<<"/">> \o state.repo_prefix, {" ", "/"})
    \o <<"/">> \o state.target

(***************************************************************************)
(* Configuration generator: release.py 169-209                             *)
(***************************************************************************)
GeneratedHeader ==
    << <<"#", " ", "This file is automatically generated by wb-release.">>,
       <<"#", " ", "DO NOT EDIT THIS FILE!">> >>

SwitchHint ==
    << <<"#">>,
       <<"#", " ", "If you want to switch to testing, use command">>,
       <<"#", " ", " ", " ", "wb-release -t testing">> >>

generate_sources_list(state, base_url) ==
    File(GeneratedHeader \o SwitchHint \o
         << <<"deb", " ">> \o make_full_repo_url(state, base_url)
            \o <<" ">> \o state.suite \o <<" ", "main">> >>)

generate_release_apt_preferences(state, origin) ==
    File(GeneratedHeader \o SwitchHint \o
         << <<"Package:", " ", "*">>,
            <<"Pin:", " ", "release", " ", "o=", origin, ",", " ", "a=">>
                \o state.suite,
            <<"Pin-Priority:", " ", "990">> >>)

generate_tmp_apt_preferences(target_state, origin) ==
    File(GeneratedHeader \o
         << <<"Package:", " ", "*">>,
            <<"Pin:", " ", "release", " ", "o=", origin, ",", " ", "a=">>
                \o target_state.suite,
            <<"Pin-Priority:", " ", "1010">>,
            <<>>,
            <<"Package:", " ", "*">>,
            <<"Pin:", " ", "release", " ", "o=", "wirenboard">>,
            <<"Pin-Priority:", " ", "-10">> >>)


(***************************************************************************)
(* Primitive operations and exceptions                                     *)
(***************************************************************************)
\* one primitive operation of a function body: `fn' is the function whose
\* body holds it, `a' and `b' are its arguments
Op(kind, fn, a, b) == [op |-> kind, fn |-> fn, a |-> a, b |-> b]

NoExc == [type |-> "", code |-> 0]
Exc(type) == [type |-> type, code |-> 0]
CalledProcessError(returncode) == [type |-> "CalledProcessError", code |-> returncode]

\* KeyboardInterrupt derives from BaseException, everything else raised here
\* derives from Exception
IsException(e) == e.type \notin {"", "KeyboardInterrupt"}

\* a function's result: not returned yet, None, an integer, or an exception
\* that left the program
Unset == [kind |-> "unset", v |-> 0]
RetNone == [kind |-> "None", v |-> 0]
RetInt(n) == [kind |-> "int", v |-> n]
Raised == [kind |-> "raise", v |-> 0]
\* results of the functions that return a bool or a string
RetBool(b) == [kind |-> "bool", v |-> IF b THEN 1 ELSE 0]
RetStr(s) == [kind |-> "str", v |-> s]

\* sys.exit(main()): None is status 0, an uncaught exception is status 1
ExitStatus(r) == IF r.kind = "int" THEN r.v ELSE IF r.kind = "raise" THEN 1 ELSE 0

(***************************************************************************)
(* release.py: function bodies as lists of primitive operations            *)
(***************************************************************************)
generate_system_config(state) ==
    << Op("write", "generate_system_config", WB_SOURCES_LIST_FILENAME,
          generate_sources_list(state, DEFAULT_REPO_URL)),
       Op("write", "generate_system_config", WB_RELEASE_APT_PREFERENCES_FILENAME,
          generate_release_apt_preferences(state, WB_ORIGIN)) >>

_cleanup_apt_cached_lists == << Op("purge_cache", "_cleanup_apt_cached_lists", "", "") >>

\* a restore that forgets the preferences file
_restore_system_config_sources_only(original_state) ==
    << Head(generate_system_config(original_state)) >> \o _cleanup_apt_cached_lists

_restore_system_config(original_state) ==
    generate_system_config(original_state) \o _cleanup_apt_cached_lists

\* a cleanup that removes nothing
_cleanup_tmp_apt_preferences_skip(filename) == <<>>

_cleanup_tmp_apt_preferences(filename) ==
    << Op("remove", "_cleanup_tmp_apt_preferences", filename, "") >>

\* release.py 432-437: the text written to TEMP_DEBIAN_UPSTREAM_LIST
DebianUpstreamSources ==
    File(<< <<"deb", " ", "http://deb.debian.org/debian", " ", "bullseye", " ", "main">>,
            <<"deb", " ", "http://deb.debian.org/debian", " ", "bullseye-updates", " ", "main">>,
            <<"deb", " ", "http://deb.debian.org/debian", " ", "bullseye-backports", " ", "main">>,
            <<"deb", " ", "http://security.debian.org/debian-security", " ",
              "bullseye-security", " ", "main">> >>)

\* release.py 423-437
prepare_debian_sources_lists ==
    << Op("os.mkdir", "prepare_debian_sources_lists", APT_SOURCE_LIST_OLD_PATH, "") >>
    \o [i \in 1..Len(APT_SOURCE_LIST_FILES) |->
          Op("os.rename", "prepare_debian_sources_lists",
             InSourceListPath(APT_SOURCE_LIST_FILES[i]),
             InSourceListOldPath(APT_SOURCE_LIST_FILES[i]))]
    \o << Op("write", "prepare_debian_sources_lists", TEMP_DEBIAN_UPSTREAM_LIST,
             DebianUpstreamSources) >>

\* release.py 443-445
clean_debian_sources_lists ==
    << Op("shutil.rmtree", "clean_debian_sources_lists", APT_SOURCE_LIST_OLD_PATH,
          {InSourceListOldPath(APT_SOURCE_LIST_FILES[i]) :
              i \in 1..Len(APT_SOURCE_LIST_FILES)}) >>

\* release.py 448-452
restore_debian_sources_lists ==
    [i \in 1..Len(APT_SOURCE_LIST_FILES) |->
        Op("os.rename", "restore_debian_sources_lists",
           InSourceListOldPath(APT_SOURCE_LIST_FILES[i]),
           InSourceListPath(APT_SOURCE_LIST_FILES[i]))]
    \o clean_debian_sources_lists

\* release.py 455-457
remove_tmp_debian_upstream ==
    << Op("remove", "remove_tmp_debian_upstream", TEMP_DEBIAN_UPSTREAM_LIST, "") >>

\* the body of a function registered with atexit
Handler(h) ==
    IF h.fn = "_restore_system_config" THEN _restore_system_config(h.arg)
    ELSE IF h.fn = "remove_tmp_debian_upstream" THEN remove_tmp_debian_upstream
    ELSE IF h.fn = "restore_debian_sources_lists" THEN restore_debian_sources_lists
    ELSE _cleanup_tmp_apt_preferences(h.arg)

\* an update that upgrades before it asks
run_system_update_upgrade_first(assume_yes) ==
    << Op("run_apt", "run_system_update", <<"update">>, assume_yes) >>
    \o (IF ~assume_yes
        THEN << Op("run_apt", "run_system_update", <<"dist-upgrade", "-s", "-V">>, FALSE),
                Op("run_apt", "run_system_update", <<"dist-upgrade">>, TRUE),
                Op("user_confirm", "run_system_update", "", assume_yes) >>
        ELSE << Op("run_apt", "run_system_update", <<"dist-upgrade">>, TRUE) >>)

\* release.py 412-421
run_system_update(assume_yes) ==
    << Op("run_apt", "run_system_update", <<"update">>, assume_yes) >>
    \o (IF ~assume_yes
        THEN << Op("run_apt", "run_system_update", <<"dist-upgrade", "-s", "-V">>, FALSE),
                Op("user_confirm", "run_system_update", "", assume_yes) >>
        ELSE <<>>)
    \o << Op("run_apt", "run_system_update", <<"dist-upgrade">>, TRUE) >>

\* a handoff that forgets the log file
stage2_argv_no_log(log_filename) == <<"--no-preliminary-update">>

\* release.py 254-258: what stage 1 appends to sys.argv for stage 2
stage2_argv(log_filename) ==
    <<"--no-preliminary-update">>
    \o (IF log_filename # "" THEN <<"--log-filename", log_filename>> ELSE <<>>)

\* a stage 1 that hands over with its log handlers open
update_first_stage_logs_open(assume_yes, log_filename) ==
    << Op("user_confirm", "update_first_stage", "", assume_yes) >>
    \o run_system_update(assume_yes)
    \o << Op("subprocess.run", "update_first_stage", stage2_argv(log_filename), "") >>

\* a stage 1 that hands over while a cleanup of its own is registered
update_first_stage_holding_cleanup(assume_yes, log_filename) ==
    << Op("user_confirm", "update_first_stage", "", assume_yes),
       Op("atexit.register", "update_first_stage",
          "_cleanup_tmp_apt_preferences", WB_TEMP_UPGRADE_PREFERENCES_FILENAME) >>
    \o run_system_update(assume_yes)
    \o << Op("close_log_handlers", "update_first_stage", "", ""),
          Op("subprocess.run", "update_first_stage", stage2_argv(log_filename), "") >>

update_first_stage(assume_yes, log_filename) ==
    << Op("user_confirm", "update_first_stage", "", assume_yes) >>
    \o run_system_update(assume_yes)
    \o << Op("close_log_handlers", "update_first_stage", "", ""),
          Op("subprocess.run", "update_first_stage", stage2_argv(log_filename), "") >>

\* a stage 2 that asks for confirmation after it has set up the target
\* configuration
update_second_stage_confirm_late(state, old_state, assume_yes) ==
    (IF state # old_state
     THEN generate_system_config(state)
          \o << Op("atexit.register", "update_second_stage",
                   "_restore_system_config", old_state) >>
     ELSE <<>>)
    \o << Op("write", "generate_tmp_apt_preferences",
             WB_TEMP_UPGRADE_PREFERENCES_FILENAME,
             generate_tmp_apt_preferences(state, WB_ORIGIN)),
          Op("atexit.register", "update_second_stage",
             "_cleanup_tmp_apt_preferences", WB_TEMP_UPGRADE_PREFERENCES_FILENAME),
          Op("user_confirm", "update_second_stage", "", assume_yes) >>
    \o run_system_update(assume_yes)
    \o << Op("atexit.unregister", "update_second_stage", "_restore_system_config", ""),
          Op("run_apt", "update_second_stage", <<"autoremove">>, TRUE),
          Op("run_cmd", "update_second_stage",
             <<"invoke-rc.d", "wb-rules", "restart">>, TRUE),
          Op("return", "update_second_stage", RetNone, "") >>

\* release.py 269-312
\* a stage 2 that keeps the restore registered until autoremove is through
update_second_stage_commit_late(state, old_state, assume_yes) ==
    (IF state # old_state
     THEN << Op("user_confirm", "update_second_stage", "", assume_yes) >>
          \o generate_system_config(state)
          \o << Op("atexit.register", "update_second_stage",
                   "_restore_system_config", old_state) >>
     ELSE << Op("user_confirm", "update_second_stage", "", assume_yes) >>)
    \o << Op("write", "generate_tmp_apt_preferences",
             WB_TEMP_UPGRADE_PREFERENCES_FILENAME,
             generate_tmp_apt_preferences(state, WB_ORIGIN)),
          Op("atexit.register", "update_second_stage",
             "_cleanup_tmp_apt_preferences", WB_TEMP_UPGRADE_PREFERENCES_FILENAME) >>
    \o run_system_update(assume_yes)
    \o << Op("run_apt", "update_second_stage", <<"autoremove">>, TRUE),
          Op("atexit.unregister", "update_second_stage", "_restore_system_config", ""),
          Op("run_cmd", "update_second_stage",
             <<"invoke-rc.d", "wb-rules", "restart">>, TRUE),
          Op("return", "update_second_stage", RetNone, "") >>

update_second_stage(state, old_state, assume_yes) ==
    (IF state # old_state
     THEN << Op("user_confirm", "update_second_stage", "", assume_yes) >>
          \o generate_system_config(state)
          \o << Op("atexit.register", "update_second_stage",
                   "_restore_system_config", old_state) >>
     ELSE << Op("user_confirm", "update_second_stage", "", assume_yes) >>)
    \o << Op("write", "generate_tmp_apt_preferences",
             WB_TEMP_UPGRADE_PREFERENCES_FILENAME,
             generate_tmp_apt_preferences(state, WB_ORIGIN)),
          Op("atexit.register", "update_second_stage",
             "_cleanup_tmp_apt_preferences", WB_TEMP_UPGRADE_PREFERENCES_FILENAME) >>
    \o run_system_update(assume_yes)
    \o << Op("atexit.unregister", "update_second_stage", "_restore_system_config", ""),
          Op("run_apt", "update_second_stage", <<"autoremove">>, TRUE),
          \* try: run_cmd(...) except CalledProcessError: pass
          Op("run_cmd", "update_second_stage",
             <<"invoke-rc.d", "wb-rules", "restart">>, TRUE),
          Op("return", "update_second_stage", RetNone, "") >>

\* except clauses without the one for CalledProcessError
update_system_except_no_status(e) ==
    IF e.type = "UserAbortException" THEN RetInt(RETCODE_USER_ABORT)
    ELSE IF e.type = "KeyboardInterrupt" THEN RetInt(RETCODE_USER_ABORT)
    ELSE RetInt(RETCODE_FAULT)

\* the except clauses of update_system (release.py 340-351)
update_system_except(e) ==
    IF e.type = "UserAbortException" THEN RetInt(RETCODE_USER_ABORT)
    ELSE IF e.type = "KeyboardInterrupt" THEN RetInt(RETCODE_USER_ABORT)
    ELSE IF e.type = "CalledProcessError" THEN RetInt(e.code)
    ELSE RetInt(RETCODE_FAULT)

\* an update_system that ignores the stage it was asked for
update_system_first_stage_only(target_state, old_state, second_stage, assume_yes, log_filename) ==
    update_first_stage(assume_yes, log_filename)

\* the stage update_system runs inside its try block
update_system(target_state, old_state, second_stage, assume_yes, log_filename) ==
    IF second_stage
    THEN update_second_stage(target_state, old_state, assume_yes)
    ELSE update_first_stage(assume_yes, log_filename)

\* a probe that takes every HTTP error for a failure of the infrastructure
\* but a 404 for a success
release_exists_404_ok(status) ==
    IF status = 0 THEN "raise"
    ELSE IF status = 404 THEN "True"
    ELSE IF status >= 400 THEN "raise"
    ELSE "True"

\* a probe that takes every HTTP error for "no such release"
release_exists_any_error_absent(status) ==
    IF status = 0 THEN "raise"
    ELSE IF status >= 200 /\ status < 300 THEN "True"
    ELSE "False"

\* release.py 315-329: what release_exists makes of the probe's HTTP status
\* (0: no response at all, urlopen raised URLError or timed out).  urlopen
\* returns for a 2xx response and raises HTTPError for every other status
\* it ends with; the except clause returns False for 4xx and re-raises the
\* rest.
release_exists(status) ==
    IF status = 0 THEN "raise"
    ELSE IF status >= 200 /\ status < 300 THEN "True"
    ELSE IF status >= 400 /\ status < 500 THEN "False"
    ELSE "raise"

\* `is' instead of `==': two distinct tuples are never the same object
SameState_identity(target_state, current_state) == FALSE

\* a comparison that leaves the consistent field out
SameState_ignoring_consistent(target_state, current_state) ==
    /\ target_state.suite = current_state.suite
    /\ target_state.target = current_state.target
    /\ target_state.repo_prefix = current_state.repo_prefix

\* route, release.py 625: namedtuple equality, all four fields
SameState(target_state, current_state) == target_state = current_state

\* route, release.py 612
ResetPackagesConflict(a) ==
    a.reset_url \/ Truthy(a.prefix) \/ Truthy(a.target_release)

\* a route that always starts with stage 1
route_update_first_stage(target_state, second_stage) ==
    << Op("release_exists", "route", target_state, ""),
       Op("update_system", "route", FALSE, "") >>

\* route, release.py 629-634: probe the target, then run the update
route_update(target_state, second_stage) ==
    << Op("release_exists", "route", target_state, ""),
       Op("update_system", "route", second_stage, "") >>

\* release.py 467-468
SERVICES_TO_RESTART == <<"nginx.service", "mosquitto.service", "wb-mqtt-mbgate.service">>
MASKED_SERVICES ==
    <<"nginx.service", "mosquitto.service", "hostapd.service", "wb-mqtt-mbgate.service">>

\* release.py 472-473: group 1 of re.search('(.+)/.+', target), <<>> when
\* the target has no slash with something on both sides
controller_version_of(target_name) ==
    LET slashes == {i \in 2..(Len(target_name) - 1) : target_name[i] = "/"}
    IN  IF slashes = {} THEN <<>>
        ELSE SubSeq(target_name, 1, (CHOOSE i \in slashes : \A j \in slashes : j <= i) - 1)

\* release.py 485: state._replace(target=controller_version + '/bullseye')
release_new_state(state) ==
    [state EXCEPT !.target = controller_version_of(state.target) \o <<"/", "bullseye">>]

\* release.py 464-591, the transition that route calls; its except clauses
\* (571-585) take effect when the frame of the try block is unwound
release_upgrade_new_debian_release(state, log_filename, assume_yes, confirm_steps) ==
    << Op("try", "release.upgrade_new_debian_release", "handler", <<>>),
       Op("user_confirm", "release.upgrade_new_debian_release", "", assume_yes) >>
    \o run_system_update(assume_yes)
    \o << Op("release_exists", "release.upgrade_new_debian_release",
             release_new_state(state), ""),
          Op("user_confirm", "release.upgrade_new_debian_release", "", assume_yes) >>
    \o prepare_debian_sources_lists
    \o << Op("atexit.register", "release.upgrade_new_debian_release",
             "remove_tmp_debian_upstream", ""),
          Op("atexit.register", "release.upgrade_new_debian_release",
             "restore_debian_sources_lists", "") >>
    \o generate_system_config(release_new_state(state))
    \o << Op("atexit.register", "release.upgrade_new_debian_release",
             "_restore_system_config", state),
          Op("run_apt", "release.upgrade_new_debian_release", <<"update">>, TRUE),
          Op("atexit.unregister", "release.upgrade_new_debian_release",
             "restore_debian_sources_lists", "") >>
    \o restore_debian_sources_lists
    \o << Op("run_cmd", "release.upgrade_new_debian_release",
             <<"systemctl", "mask", "ssh.service">>, FALSE),
          Op("run_apt", "release.upgrade_new_debian_release",
             <<"install", "openssh-server">>, ~confirm_steps),
          Op("run_cmd", "release.upgrade_new_debian_release",
             <<"systemctl", "unmask", "ssh.service">>, FALSE),
          Op("run_cmd", "release.upgrade_new_debian_release",
             <<"systemctl", "restart", "ssh.service">>, FALSE),
          Op("run_apt", "release.upgrade_new_debian_release",
             <<"install", "python-is-python2">>, ~confirm_steps) >>
    \o [i \in 1..Len(MASKED_SERVICES) |->
          Op("run_cmd", "release.upgrade_new_debian_release",
             <<"systemctl", "mask", MASKED_SERVICES[i]>>, FALSE)]
    \o (IF confirm_steps
        THEN << Op("run_apt", "release.upgrade_new_debian_release",
                   <<"dist-upgrade", "-s", "-V">>, FALSE),
                Op("user_confirm", "release.upgrade_new_debian_release", "", FALSE) >>
        ELSE <<>>)
    \o << Op("run_apt", "release.upgrade_new_debian_release", <<"dist-upgrade">>, TRUE),
          Op("run_apt", "release.upgrade_new_debian_release", <<"dist-upgrade">>,
             ~confirm_steps),
          Op("run_apt", "release.upgrade_new_debian_release",
             <<"purge", "wb-configs-stretch">>, ~confirm_steps),
          Op("atexit.unregister", "release.upgrade_new_debian_release",
             "_restore_system_config", "") >>
    \o clean_debian_sources_lists
    \o [i \in 1..Len(MASKED_SERVICES) |->
          Op("run_cmd", "release.upgrade_new_debian_release",
             <<"systemctl", "unmask", MASKED_SERVICES[i]>>, FALSE)]
    \o [i \in 1..Len(SERVICES_TO_RESTART) |->
          Op("run_cmd", "release.upgrade_new_debian_release",
             <<"systemctl", "restart", SERVICES_TO_RESTART[i]>>, FALSE)]
    \o << Op("run_cmd", "release.upgrade_new_debian_release",
             <<"apt-mark", "auto", "python-is-python2">>, FALSE),
          Op("run_apt", "release.upgrade_new_debian_release", <<"autoremove">>,
             ~confirm_steps),
          Op("write", "release.upgrade_new_debian_release", PROGRESS_BANNER,
             File(<< <<"99-wb-debian-release-updated">> >>)),
          Op("write", "release.upgrade_new_debian_release", UPDATE_DONE_FLAG, File(<<>>)),
          Op("end_try", "release.upgrade_new_debian_release", "", ""),
          Op("return", "release.upgrade_new_debian_release", RetInt(RETCODE_OK), "") >>


(***************************************************************************)
(* tools.py: wrappers of run_apt and run_cmd                               *)
(***************************************************************************)
apt_update == << Op("run_apt", "apt_update", <<"update">>, FALSE) >>

apt_purge(package, assume_yes) ==
    << Op("run_apt", "apt_purge", <<"purge", package>>, assume_yes) >>

apt_install(package, assume_yes) ==
    << Op("run_apt", "apt_install", <<"install", package>>, assume_yes) >>

apt_upgrade(dist, assume_yes) ==
    << Op("run_apt", "apt_upgrade",
          <<IF dist THEN "dist-upgrade" ELSE "upgrade">>, assume_yes) >>

apt_mark_hold(packages) ==
    << Op("run_cmd", "apt_mark_hold", <<"apt-mark", "hold">> \o packages, FALSE) >>

apt_mark_unhold(packages) ==
    << Op("run_cmd", "apt_mark_unhold", <<"apt-mark", "unhold">> \o packages, FALSE) >>

apt_autoremove(assume_yes) ==
    << Op("run_apt", "apt_autoremove", <<"autoremove">>, assume_yes) >>

\* one systemctl call per service, in order; the first that fails ends the loop
systemd_mask(services) ==
    [i \in 1..Len(services) |->
        Op("run_cmd", "systemd_mask", <<"systemctl", "mask", services[i]>>, FALSE)]

systemd_unmask(services) ==
    [i \in 1..Len(services) |->
        Op("run_cmd", "systemd_unmask", <<"systemctl", "unmask", services[i]>>, FALSE)]

systemd_restart(services) ==
    [i \in 1..Len(services) |->
        Op("run_cmd", "systemd_restart", <<"systemctl", "restart", services[i]>>, FALSE)]

systemd_enable(services) ==
    [i \in 1..Len(services) |->
        Op("run_cmd", "systemd_enable", <<"systemctl", "enable", services[i]>>, FALSE)]

(***************************************************************************)
(* bullseye.py: function bodies as lists of primitive operations           *)
(***************************************************************************)
\* try ... finally `ops' / try ... except Exception: `ops'; raise
Try(fn, kind, ops) == Op("try", fn, kind, ops)
EndTry(fn) == Op("end_try", fn, "", "")

MEGABYTE == 1048576

\* bullseye.py 41-43 and 54, 58: f_bavail * f_bsize / 1024 / 1024 < limit
FreeSpaceBelow(stat, limit_mb) == stat.f_bavail * stat.f_bsize < limit_mb * MEGABYTE

min_cache_free_space_mb == 300
min_system_free_space_mb == 150

\* a free-space check that is content with either filesystem
enough_free_space_either(cache_stat, system_stat) ==
    IF FreeSpaceBelow(cache_stat, min_cache_free_space_mb)
    THEN ~FreeSpaceBelow(system_stat, min_system_free_space_mb)
    ELSE TRUE

enough_free_space(cache_stat, system_stat) ==
    IF FreeSpaceBelow(cache_stat, min_cache_free_space_mb) THEN FALSE
    ELSE IF FreeSpaceBelow(system_stat, min_system_free_space_mb) THEN FALSE
    ELSE TRUE

\* bullseye.py 68-82
ToolPreferences ==
    File(<< <<"Package: *wb-update-manager">>,
            <<"Pin: release o=wirenboard,l=*stretch*">>,
            <<"Pin-Priority: 800">>,
            <<>>,
            <<"Package: *wb-update-manager">>,
            <<"Pin: release o=wirenboard,l=*bullseye*">>,
            <<"Pin-Priority: 10">> >>)

create_temp_apt_policy_for_tool ==
    << Op("write", "create_temp_apt_policy_for_tool", TEMP_APT_PREFERENCE_FOR_TOOL,
          ToolPreferences) >>

remove_temp_apt_policy_for_tool ==
    << Op("remove", "remove_temp_apt_policy_for_tool", TEMP_APT_PREFERENCE_FOR_TOOL, "") >>

\* with temp_apt_policy_for_tool(): body  (the file is created before `try')
temp_apt_policy_for_tool(body) ==
    create_temp_apt_policy_for_tool
    \o << Try("temp_apt_policy_for_tool", "finally", remove_temp_apt_policy_for_tool) >>
    \o body
    \o << EndTry("temp_apt_policy_for_tool") >>

touch_tool_update_done_flag ==
    << Op("write", "touch_tool_update_done_flag", TOOL_UPDATE_DONE_FLAG, File(<<>>)) >>

\* bullseye.py 126-130: LOG_FILENAME_ARGNAME is neither defined nor imported
\* in bullseye.py, so line 130 raises NameError when it is executed
stage2_args(log_filename) ==
    IF log_filename # ""
    THEN << Op("raise", "upgrade_and_maybe_switch_tool", "NameError", "") >>
    ELSE <<>>

\* bullseye.py 103-139; nothing after os.execvp runs in this process
\* a tool upgrade that replaces the process inside the with-block of the pin
upgrade_and_maybe_switch_tool_exec_inside(assume_yes, log_filename) ==
    << Op("user_confirm", "upgrade_and_maybe_switch_tool", "", assume_yes) >>
    \o touch_tool_update_done_flag
    \o temp_apt_policy_for_tool(
         apt_update \o apt_install("wb-update-manager", assume_yes)
         \o stage2_args(log_filename)
         \o << Op("close_log_handlers", "upgrade_and_maybe_switch_tool", "", ""),
               Op("os.execvp", "upgrade_and_maybe_switch_tool",
                  <<NO_PRELIMINARY_UPDATE_ARGNAME>>, "") >>)

upgrade_and_maybe_switch_tool(assume_yes, log_filename) ==
    << Op("user_confirm", "upgrade_and_maybe_switch_tool", "", assume_yes) >>
    \o touch_tool_update_done_flag
    \o temp_apt_policy_for_tool(
         apt_update \o apt_install("wb-update-manager", assume_yes))
    \o stage2_args(log_filename)
    \o << Op("close_log_handlers", "upgrade_and_maybe_switch_tool", "", ""),
          Op("os.execvp", "upgrade_and_maybe_switch_tool",
             <<NO_PRELIMINARY_UPDATE_ARGNAME>>, "") >>

BullseyeSources ==
    File(<< <<"deb", " ", "http", ":", "/", "/", "deb.debian.org", "/", "debian",
              " ", "bullseye", " ", "main">>,
            <<"deb", " ", "http", ":", "/", "/", "deb.debian.org", "/", "debian",
              " ", "bullseye-updates", " ", "main">>,
            <<"deb", " ", "http", ":", "/", "/", "deb.debian.org", "/", "debian",
              " ", "bullseye-backports", " ", "main">>,
            <<"deb", " ", "http", ":", "/", "/", "security.debian.org", "/",
              "debian-security", " ", "bullseye-security", " ", "main">> >>)

BullseyePreferences ==
    File(<< <<"Package:", " ", "*">>,
            <<"Pin:", " ", "release", " ", "o=Debian,n=stretch*">>,
            <<"Pin-Priority:", " ", "-1">>,
            <<>>,
            <<"Package:", " ", "*">>,
            <<"Pin:", " ", "release", " ", "o=Debian,n=bullseye*">>,
            <<"Pin-Priority:", " ", "600">> >>)

create_temp_apt_configs ==
    << Op("write", "create_temp_apt_configs", TEMP_UPGRADE_SOURCES_LIST, BullseyeSources),
       Op("write", "create_temp_apt_configs", TEMP_UPGRADE_APT_PREFERENCES,
          BullseyePreferences) >>

remove_temp_apt_configs ==
    << Op("remove", "remove_temp_apt_configs", TEMP_UPGRADE_SOURCES_LIST, ""),
       Op("remove", "remove_temp_apt_configs", TEMP_UPGRADE_APT_PREFERENCES, "") >>

\* with make_temp_apt_configs(): body
\* temporary apt configs that are removed only when the body went through
make_temp_apt_configs_no_finally(body) ==
    << Try("make_temp_apt_configs", "except", _cleanup_apt_cached_lists) >>
    \o create_temp_apt_configs
    \o body
    \o << EndTry("make_temp_apt_configs") >>
    \o remove_temp_apt_configs

make_temp_apt_configs(body) ==
    << Try("make_temp_apt_configs", "finally", remove_temp_apt_configs),
       Try("make_temp_apt_configs", "except", _cleanup_apt_cached_lists) >>
    \o create_temp_apt_configs
    \o body
    \o << EndTry("make_temp_apt_configs"), EndTry("make_temp_apt_configs") >>

\* with mask_services(*services): body
mask_services(services, body) ==
    << Try("mask_services", "finally", systemd_unmask(services)) >>
    \o systemd_mask(services)
    \o body
    \o << EndTry("mask_services") >>

\* packages released only when the body completes
hold_packages_no_finally(packages, body) ==
    apt_mark_hold(packages) \o body \o apt_mark_unhold(packages)

\* with hold_packages(*packages): body
hold_packages(packages, body) ==
    << Try("hold_packages", "finally", apt_mark_unhold(packages)) >>
    \o apt_mark_hold(packages)
    \o body
    \o << EndTry("hold_packages") >>

ensure_new_openssh(assume_yes) ==
    apt_update
    \o mask_services(<<"ssh.service">>, apt_install("openssh-server", assume_yes))
    \o systemd_restart(<<"ssh.service">>)

ensure_python2_deps(assume_yes) ==
    apt_update \o apt_install("python-is-python2", assume_yes)

mark_python2_for_cleanup ==
    << Op("run_cmd", "mark_python2_for_cleanup",
          <<"apt-mark", "auto", "python-is-python2">>, FALSE) >>

services_to_restart == <<"nginx.service", "mosquitto.service", "wb-mqtt-mbgate.service">>
services_to_enable == <<"hostapd.service", "wb-configs.service", "wb-configs-early.service">>
services_to_mask ==
    <<"nginx.service", "mosquitto.service", "hostapd.service", "wb-mqtt-mbgate.service">>

\* an upgrade that enables and restarts the services inside the mask scope
main_upgrade_restart_while_masked(assume_yes) ==
    apt_update
    \o (IF ~assume_yes
        THEN << Op("run_cmd", "main_upgrade", <<"apt", "dist-upgrade", "-s", "-V">>, FALSE),
                Op("user_confirm", "main_upgrade", "", FALSE) >>
        ELSE <<>>)
    \o mask_services(services_to_mask,
                     apt_upgrade(TRUE, TRUE) \o apt_update \o apt_upgrade(TRUE, assume_yes)
                     \o systemd_enable(services_to_enable)
                     \o systemd_restart(services_to_restart))

main_upgrade(assume_yes) ==
    apt_update
    \o (IF ~assume_yes
        THEN << Op("run_cmd", "main_upgrade", <<"apt", "dist-upgrade", "-s", "-V">>, FALSE),
                Op("user_confirm", "main_upgrade", "", FALSE) >>
        ELSE <<>>)
    \o mask_services(services_to_mask,
                     apt_upgrade(TRUE, TRUE) \o apt_update \o apt_upgrade(TRUE, assume_yes))
    \o systemd_enable(services_to_enable)
    \o systemd_restart(services_to_restart)

purge_old_wb_configs(assume_yes) == apt_purge("wb-configs-stretch", assume_yes)

touch_system_update_done_flag ==
    << Op("write", "touch_system_update_done_flag", UPDATE_DONE_FLAG, File(<<>>)) >>

update_tool_on_new_system(assume_yes) ==
    apt_update \o apt_install("wb-update-manager", assume_yes)

update_release_info == apt_update \o apt_install("wb-release-info", TRUE)

\* with apply_new_system_config(current_state, new_state): body
apply_new_system_config(current_state, new_state, body) ==
    generate_system_config(new_state)
    \o << Try("apply_new_system_config", "except",
              generate_system_config(current_state) \o _cleanup_apt_cached_lists) >>
    \o body
    \o << EndTry("apply_new_system_config") >>

\* a new state that keeps everything but the last component of the path
make_new_state_rsplit(state) ==
    LET parts == Split(state.target, "/", 8)
        kept == IF Len(parts) > 1 THEN SubSeq(parts, 1, Len(parts) - 1) ELSE parts
        Join[i \in 1..Len(kept)] ==
            IF i = 1 THEN kept[1] ELSE Join[i - 1] \o <<"/">> \o kept[i]
    IN  [state EXCEPT !.target = Join[Len(kept)] \o <<"/", "bullseye">>]

make_new_state(state) ==
    LET controller_version == Split(state.target, "/", 1)[1]
    IN  [state EXCEPT !.target = controller_version \o <<"/", "bullseye">>]

\* value truthy: write it to the flag file; else remove the flag file
set_global_progress_flag(value) ==
    IF value # ""
    THEN << Op("write", "set_global_progress_flag", PROGRESS_FLAG, File(<< <<value>> >>)) >>
    ELSE << Op("remove", "set_global_progress_flag", PROGRESS_FLAG, "") >>

install_progress_banner ==
    << Op("write", "install_progress_banner", PROGRESS_BANNER,
          File(<< <<"99-wb-debian-release-updated">> >>)) >>

held_packages == <<"wb-update-manager", "wb-release-info">>

\* a transition that leaves the reboot notice before the steps after the scope
actual_upgrade_flag_first(current_state, new_state, assume_yes) ==
    << Op("user_confirm", "actual_upgrade", "", assume_yes) >>
    \o apply_new_system_config(current_state, new_state,
         make_temp_apt_configs(
           hold_packages(held_packages,
             ensure_new_openssh(assume_yes)
             \o ensure_python2_deps(assume_yes)
             \o main_upgrade(assume_yes))))
    \o touch_system_update_done_flag
    \o mark_python2_for_cleanup
    \o purge_old_wb_configs(assume_yes)
    \o apt_autoremove(assume_yes)
    \o update_release_info
    \o update_tool_on_new_system(assume_yes)

actual_upgrade(current_state, new_state, assume_yes) ==
    << Op("user_confirm", "actual_upgrade", "", assume_yes) >>
    \o apply_new_system_config(current_state, new_state,
         make_temp_apt_configs(
           hold_packages(held_packages,
             ensure_new_openssh(assume_yes)
             \o ensure_python2_deps(assume_yes)
             \o main_upgrade(assume_yes))))
    \o mark_python2_for_cleanup
    \o purge_old_wb_configs(assume_yes)
    \o apt_autoremove(assume_yes)
    \o update_release_info
    \o update_tool_on_new_system(assume_yes)
    \o touch_system_update_done_flag

\* except clauses without the one for KeyboardInterrupt
upgrade_new_debian_release_except_no_interrupt(e) ==
    IF e.type = "UserAbortException" THEN RetInt(RETCODE_USER_ABORT)
    ELSE IF e.type = "CalledProcessError" THEN RetInt(e.code)
    ELSE RetInt(RETCODE_FAULT)

\* the except clauses of upgrade_new_debian_release (bullseye.py 392-406)
upgrade_new_debian_release_except(e) ==
    IF e.type = "UserAbortException" THEN RetInt(RETCODE_USER_ABORT)
    ELSE IF e.type = "KeyboardInterrupt" THEN RetInt(RETCODE_USER_ABORT)
    ELSE IF e.type = "CalledProcessError" THEN RetInt(e.code)
    ELSE RetInt(RETCODE_FAULT)

\* a failure path that returns the code without leaving the marker
upgrade_new_debian_release_failed_unmarked ==
    << Op("return_retcode", "upgrade_new_debian_release", "", "") >>

\* bullseye.py 412-416, reached with retcode set by an except clause
upgrade_new_debian_release_failed ==
    << Op("if_retcode_not_ok", "upgrade_new_debian_release", "",
          set_global_progress_flag("error")),
       Op("return_retcode", "upgrade_new_debian_release", "", "") >>

\* a transition that announces itself before it has probed the target
upgrade_new_debian_release_probe_late(state, log_filename, assume_yes, confirm_steps, no_prelim) ==
    << Op("try", "upgrade_new_debian_release", "handler",
          upgrade_new_debian_release_failed) >>
    \o (IF ~no_prelim
        THEN upgrade_and_maybe_switch_tool(assume_yes, log_filename)
             \o << Op("return", "upgrade_new_debian_release", RetInt(0), "") >>
        ELSE <<>>)
    \o install_progress_banner
    \o set_global_progress_flag("progress")
    \o << Op("release_exists", "upgrade_new_debian_release", make_new_state(state), "") >>
    \o actual_upgrade(state, make_new_state(state), ~confirm_steps)
    \o set_global_progress_flag("")
    \o << EndTry("upgrade_new_debian_release"),
          Op("return", "upgrade_new_debian_release", RetInt(RETCODE_OK), "") >>

\* bullseye.py 369-416; on the path without an exception retcode is
\* RETCODE_OK at line 412
upgrade_new_debian_release(state, log_filename, assume_yes, confirm_steps, no_prelim) ==
    << Op("try", "upgrade_new_debian_release", "handler",
          upgrade_new_debian_release_failed) >>
    \o (IF ~no_prelim
        THEN upgrade_and_maybe_switch_tool(assume_yes, log_filename)
             \o << Op("return", "upgrade_new_debian_release", RetInt(0), "") >>
        ELSE <<>>)
    \o << Op("release_exists", "upgrade_new_debian_release", make_new_state(state), "") >>
    \o install_progress_banner
    \o set_global_progress_flag("progress")
    \o actual_upgrade(state, make_new_state(state), ~confirm_steps)
    \o set_global_progress_flag("")
    \o << EndTry("upgrade_new_debian_release"),
          Op("return", "upgrade_new_debian_release", RetInt(RETCODE_OK), "") >>

(***************************************************************************)
(* The machine                                                             *)
(***************************************************************************)
VARIABLES
    entry,      \* "release": release.route; "bullseye": bullseye.upgrade_new_debian_release
    args,       \* the parsed command line
    relFile,    \* ReleaseInfo held by /usr/lib/wb-release
    free,       \* os.statvfs of /var/cache/apt/archives and of /usr/bin
    fs,         \* the files the tool writes: name -> file
    aptCache,   \* /var/lib/apt/lists: "present" or "purged"
    masked,     \* systemd units that are masked
    held,       \* packages that apt-mark holds
    logOpen,    \* the handlers of this process's logger are open
    parent,     \* "none", or the stage-1 process: "waiting" for / "resumed" after stage 2
    phase,      \* "route", "run", "exit" (atexit handlers), "exited"
    code,       \* primitive operations still to execute
    frames,     \* entered try/with blocks, innermost last
    exc,        \* the exception being propagated
    ret,        \* what the entry function returned
    atexitReg,  \* functions registered with atexit, in order of registration
    current,    \* route's current_state
    target,     \* route's target_state
    stage,      \* the stage that runs: "none", "first", "second" (update_system),
                \* "tool", "bullseye" (stages 1 and 2 of the major transition)
    \* what an observer has seen of this process
    fs0,        \* the files when the process started
    cmds,       \* external commands started
    cmdsOk,     \* external commands that exited with status 0
    wrote,      \* files opened for writing
    removed,    \* files removed
    probed,     \* HTTP statuses the remote existence probes got (0: none)
    fired,      \* atexit functions that were run
    scopes,     \* try/with blocks left: <<function, "normal" or "exception">>
    launches,   \* what each start of the tool by the tool appended to sys.argv
    faults,     \* operations that raised: 0, 1, or 2 for "more than one"
    raisedIn    \* the operation that raised first, what it raised and the exit
                \* status of the command behind it: [fn, op, exc, status]

input == <<entry, args, relFile, free>>
disk == <<fs, aptCache, masked, held>>
proc == <<logOpen, parent, phase, code, frames, exc, ret, atexitReg, current, target, stage>>
seen == <<fs0, cmds, cmdsOk, wrote, removed, probed, fired, scopes, launches,
          faults, raisedIn>>
vars == <<input, disk, proc, seen>>

ExitCodes == 1..MaxExitCode

FileNames ==
    {WB_SOURCES_LIST_FILENAME, WB_RELEASE_APT_PREFERENCES_FILENAME,
     WB_TEMP_UPGRADE_PREFERENCES_FILENAME, TEMP_UPGRADE_SOURCES_LIST,
     TEMP_UPGRADE_APT_PREFERENCES, PROGRESS_FLAG, PROGRESS_BANNER, UPDATE_DONE_FLAG,
     TEMP_APT_PREFERENCE_FOR_TOOL, TOOL_UPDATE_DONE_FLAG}

Suites == {<<"testing">>, <<"stable">>}
Targets == {<<"wb6", "/", "stretch">>}
\* prefixes found in the release-identity file
ReleasePrefixes == {<<>>, <<"my", "/", "prefix">>}
\* prefixes asked for on the command line
RequestPrefixes == {NoString, <<"dev">>, <<"/", "my", "/", "prefix", "/">>}

ReleaseInfos ==
    [release_name : {"wb-2108"}, suite : {<<"testing">>}, target : Targets,
     repo_prefix : ReleasePrefixes]

NoArgs ==
    [version |-> FALSE, regenerate |-> FALSE, reset_packages |-> FALSE,
     reset_url |-> FALSE, prefix |-> NoString, target_release |-> NoString,
     second_stage |-> FALSE, yes |-> FALSE, confirm_steps |-> FALSE,
     log_filename |-> ""]

LogFile == "/var/log/wb-release/update.log"

\* command lines: a release switch or packages reset with any combination
\* of flags, --version alone, --regenerate alone, a release switch with a
\* log file
ArgsSet ==
    { [NoArgs EXCEPT !.reset_packages = rp, !.reset_url = ru, !.prefix = p,
                     !.target_release = t, !.second_stage = ss, !.yes = y] :
        rp \in BOOLEAN, ru \in BOOLEAN, p \in RequestPrefixes,
        t \in {NoString} \cup Suites, ss \in BOOLEAN, y \in BOOLEAN }
    \cup {[NoArgs EXCEPT !.version = TRUE], [NoArgs EXCEPT !.regenerate = TRUE]}
    \cup { [NoArgs EXCEPT !.target_release = t, !.second_stage = ss, !.yes = y,
                          !.log_filename = LogFile] :
             t \in Suites, ss \in BOOLEAN, y \in BOOLEAN }

\* the sources list a system can start with: generated for the release the
\* identity file names, generated for another suite, or missing
InitialSourcesLists(info) ==
    { generate_sources_list(
          SystemState(s, info.target, info.repo_prefix, TRUE), DEFAULT_REPO_URL) :
        s \in Suites } \cup {Absent}

\* the major transition: started with --no-preliminary-update, and started
\* by the user without it (interactively, or with --yes and a log file)
BullseyeArgsSet ==
    { [NoArgs EXCEPT !.second_stage = TRUE, !.yes = TRUE, !.confirm_steps = cs] :
        cs \in BOOLEAN }
    \cup { NoArgs, [NoArgs EXCEPT !.yes = TRUE, !.log_filename = LogFile] }

\* tests/test_os_tools.py 9-13
FakeStatvfs(f_bavail, f_bsize) == [f_bavail |-> f_bavail, f_bsize |-> f_bsize]
vfs_megabytes(mbs) == FakeStatvfs(mbs * 2048, 512)

FreeSpaces ==
    { [cache |-> vfs_megabytes(c), system |-> vfs_megabytes(u)] :
        c \in {10, 1024}, u \in {10, 1024} }

InitialPreferences(info) ==
    { generate_release_apt_preferences(
          SystemState(s, info.target, info.repo_prefix, TRUE), WB_ORIGIN) :
        s \in Suites }

NoState == SystemState(<<>>, <<>>, <<>>, FALSE)

Init ==
    /\ entry \in {"release", "bullseye"}
    /\ args \in IF entry = "release" THEN ArgsSet ELSE BullseyeArgsSet
    /\ relFile \in ReleaseInfos
    /\ free \in IF entry = "release"
                THEN {[cache |-> vfs_megabytes(1024), system |-> vfs_megabytes(1024)]}
                ELSE FreeSpaces
    /\ \E src \in InitialSourcesLists(relFile),
          pref \in IF entry = "release" THEN InitialPreferences(relFile)
                   ELSE {generate_release_apt_preferences(
                             SystemState(relFile.suite, relFile.target,
                                         relFile.repo_prefix, TRUE), WB_ORIGIN)} :
          fs = [n \in FileNames |->
                   IF n = WB_SOURCES_LIST_FILENAME THEN src
                   ELSE IF n = WB_RELEASE_APT_PREFERENCES_FILENAME THEN pref
                   ELSE Absent]
    /\ aptCache = "present"
    /\ masked = {}
    /\ held = {}
    /\ logOpen = TRUE
    /\ parent = "none"
    /\ phase = "route"
    /\ code = <<>>
    /\ frames = <<>>
    /\ exc = NoExc
    /\ ret = Unset
    /\ atexitReg = <<>>
    /\ current = NoState
    /\ target = NoState
    /\ stage = "none"
    /\ fs0 = fs
    /\ cmds = {}
    /\ cmdsOk = {}
    /\ wrote = {}
    /\ removed = {}
    /\ probed = {}
    /\ fired = {}
    /\ scopes = {}
    /\ launches = <<>>
    /\ faults = 0
    /\ raisedIn = [fn |-> "", op |-> "", exc |-> NoExc, status |-> 0]

(***************************************************************************)
(* Steps of the interpreter                                                *)
(***************************************************************************)
Cur == Head(code)
At(kind) == phase \in {"run", "exit"} /\ code # <<>> /\ Cur.op = kind

\* the operation completes
Done ==
    /\ code' = Tail(code)
    /\ UNCHANGED <<exc, faults, raisedIn>>

\* the environment may still make an operation fail
CanFail == faults < MaxFaults

\* the operation raises e, after a command it ran exited with `status' (0:
\* no command exited): the rest of the body is abandoned
RaiseAfter(e, status) ==
    /\ code' = <<>>
    /\ exc' = e
    /\ faults' = faults + 1
    /\ raisedIn' = IF raisedIn.fn = ""
                    THEN [fn |-> Cur.fn, op |-> Cur.op, exc |-> e, status |-> status]
                    ELSE raisedIn

Raise(e) == RaiseAfter(e, 0)

\* a run_apt that passes every failure of apt-get on as it is
run_apt_except_reraise(returncode) == CalledProcessError(returncode)

\* release.py 380-386: what run_apt raises when apt-get exited with returncode
run_apt_except(returncode) ==
    IF returncode = 1 THEN Exc("UserAbortException")
    ELSE CalledProcessError(returncode)

\* release.py 90-104
user_confirm ==
    /\ At("user_confirm")
    /\ \/ Done
       \/ ~Cur.b /\ CanFail /\ Raise(Exc("UserAbortException"))
       \/ ~Cur.b /\ CanFail /\ Raise(Exc("KeyboardInterrupt"))
    /\ UNCHANGED <<input, disk, logOpen, parent, phase, frames, ret, atexitReg,
                   current, target, stage, fs0, cmds, cmdsOk, wrote, removed,
                   probed, fired, scopes, launches>>

\* release.py 368-386: exit status 1 of apt-get means that the user declined;
\* OSError when subprocess.Popen cannot start the command
run_apt ==
    /\ At("run_apt")
    /\ cmds' = cmds \cup {<<"apt-get">> \o Cur.a}
    /\ \/ Done /\ cmdsOk' = cmdsOk \cup {<<"apt-get">> \o Cur.a}
       \/ /\ CanFail
          /\ \E c \in ExitCodes :
                RaiseAfter(run_apt_except(c), c)
          /\ UNCHANGED cmdsOk
       \/ /\ CanFail
          /\ \E t \in {"KeyboardInterrupt", "OSError"} : Raise(Exc(t))
          /\ UNCHANGED cmdsOk
    /\ UNCHANGED <<input, disk, logOpen, parent, phase, frames, ret, atexitReg,
                   current, target, stage, fs0, wrote, removed, probed, fired, scopes, launches>>

\* what a command does to the units and packages of the system
CmdMasked(argv, m) ==
    IF argv[1] = "systemctl" /\ argv[2] = "mask" THEN m \cup {argv[3]}
    ELSE IF argv[1] = "systemctl" /\ argv[2] = "unmask" THEN m \ {argv[3]}
    ELSE m

CmdHeld(argv, h) ==
    IF argv[1] = "apt-mark" /\ argv[2] = "hold"
    THEN h \cup {argv[i] : i \in 3..Len(argv)}
    ELSE IF argv[1] = "apt-mark" /\ argv[2] = "unhold"
    THEN h \ {argv[i] : i \in 3..Len(argv)}
    ELSE h

\* release.py 389-409; Cur.b: the call is wrapped in
\* `try: ... except subprocess.CalledProcessError: pass'.  A command that
\* fails or is interrupted may or may not have taken effect; subprocess.Popen
\* raises OSError when it cannot start the command.
run_cmd ==
    /\ At("run_cmd")
    /\ cmds' = cmds \cup {Cur.a}
    /\ \/ /\ Done
          /\ cmdsOk' = cmdsOk \cup {Cur.a}
          /\ masked' = CmdMasked(Cur.a, masked)
          /\ held' = CmdHeld(Cur.a, held)
       \/ /\ CanFail
          /\ \E c \in ExitCodes :
                IF Cur.b
                THEN /\ code' = Tail(code)
                     /\ faults' = faults + 1
                     /\ UNCHANGED <<exc, raisedIn>>
                ELSE RaiseAfter(CalledProcessError(c), c)
          /\ masked' \in {masked, CmdMasked(Cur.a, masked)}
          /\ held' \in {held, CmdHeld(Cur.a, held)}
          /\ UNCHANGED cmdsOk
       \/ /\ CanFail
          /\ Raise(Exc("KeyboardInterrupt"))
          /\ masked' \in {masked, CmdMasked(Cur.a, masked)}
          /\ held' \in {held, CmdHeld(Cur.a, held)}
          /\ UNCHANGED cmdsOk
       \/ /\ CanFail
          /\ Raise(Exc("OSError"))
          /\ UNCHANGED <<masked, held, cmdsOk>>
    /\ UNCHANGED <<input, fs, aptCache, logOpen, parent, phase, frames, ret,
                   atexitReg, current, target, stage, fs0, wrote, removed,
                   probed, fired, scopes, launches>>

\* open(filename, 'w') and f.write(...): when the write fails (OSError) or
\* is interrupted the file is left as it was or truncated
write ==
    /\ At("write")
    /\ wrote' = wrote \cup {Cur.a}
    /\ \/ Done /\ fs' = [fs EXCEPT ![Cur.a] = Cur.b]
       \/ /\ CanFail
          /\ \E t \in {"OSError", "KeyboardInterrupt"} : Raise(Exc(t))
          /\ fs' \in {fs, [fs EXCEPT ![Cur.a] = Truncated]}
    /\ UNCHANGED <<input, aptCache, masked, held, logOpen, parent, phase, frames,
                   ret, atexitReg, current, target, stage, fs0, cmds, cmdsOk,
                   removed, probed, fired, scopes, launches>>

\* os.remove(filename): FileNotFoundError when there is no such file
remove ==
    /\ At("remove")
    /\ IF fs[Cur.a].exists
       THEN /\ Done
            /\ fs' = [fs EXCEPT ![Cur.a] = Absent]
            /\ removed' = removed \cup {Cur.a}
       ELSE /\ Raise(Exc("OSError"))
            /\ UNCHANGED <<fs, removed>>
    /\ UNCHANGED <<input, aptCache, masked, held, logOpen, parent, phase, frames,
                   ret, atexitReg, current, target, stage, fs0, cmds, cmdsOk,
                   wrote, probed, fired, scopes, launches>>

\* release.py 217-223
purge_cache ==
    /\ At("purge_cache")
    /\ Done
    /\ aptCache' = "purged"
    /\ UNCHANGED <<input, fs, masked, held, logOpen, parent, phase, frames, ret,
                   atexitReg, current, target, stage, fs0, cmds, cmdsOk, wrote,
                   removed, probed, fired, scopes, launches>>

atexit_register ==
    /\ At("atexit.register")
    /\ Done
    /\ atexitReg' = Append(atexitReg, [fn |-> Cur.a, arg |-> Cur.b])
    /\ UNCHANGED <<input, disk, logOpen, parent, phase, frames, ret, current,
                   target, stage, fs0, cmds, cmdsOk, wrote, removed, probed, fired, scopes, launches>>

\* an unregister that names another function and so removes nothing
atexit_unregister_nothing ==
    /\ At("atexit.unregister")
    /\ Done
    /\ UNCHANGED <<input, disk, logOpen, parent, phase, frames, ret, atexitReg,
                   current, target, stage, fs0, cmds, cmdsOk, wrote, removed,
                   probed, fired, scopes, launches>>

atexit_unregister ==
    /\ At("atexit.unregister")
    /\ Done
    /\ atexitReg' = SelectSeq(atexitReg, LAMBDA h : h.fn # Cur.a)
    /\ UNCHANGED <<input, disk, logOpen, parent, phase, frames, ret, current,
                   target, stage, fs0, cmds, cmdsOk, wrote, removed, probed, fired, scopes, launches>>

\* release.py 262-263
close_log_handlers ==
    /\ At("close_log_handlers")
    /\ Done
    /\ logOpen' = FALSE
    /\ UNCHANGED <<input, disk, parent, phase, frames, ret, atexitReg, current,
                   target, stage, fs0, cmds, cmdsOk, wrote, removed, probed, fired, scopes, launches>>

\* entering a try or with block
try ==
    /\ At("try")
    /\ Done
    /\ frames' = Append(frames, [kind |-> Cur.a, fn |-> Cur.fn, ops |-> Cur.b])
    /\ UNCHANGED <<input, disk, logOpen, parent, phase, ret, atexitReg, current,
                   target, stage, fs0, cmds, cmdsOk, wrote, removed, probed, fired, scopes, launches>>

\* leaving a try or with block without an exception: its finally clause runs
end_try ==
    /\ At("end_try")
    /\ frames # <<>>
    /\ LET top == frames[Len(frames)]
       IN  /\ code' = IF top.kind = "finally" THEN top.ops \o Tail(code)
                      ELSE Tail(code)
           /\ scopes' = scopes \cup {<<top.fn, "normal">>}
    /\ frames' = SubSeq(frames, 1, Len(frames) - 1)
    /\ UNCHANGED <<input, disk, logOpen, parent, phase, exc, ret, atexitReg,
                   current, target, stage, fs0, cmds, cmdsOk, wrote, removed,
                   probed, fired, launches, faults, raisedIn>>

\* bullseye.py 412-414
if_retcode_not_ok ==
    /\ At("if_retcode_not_ok")
    /\ code' = IF ret # RetInt(RETCODE_OK) THEN Cur.b \o Tail(code) ELSE Tail(code)
    /\ UNCHANGED <<input, disk, logOpen, parent, phase, frames, exc, ret,
                   atexitReg, current, target, stage, seen>>

\* bullseye.py 416
return_retcode ==
    /\ At("return_retcode")
    /\ code' = <<>>
    /\ frames' = <<>>
    /\ UNCHANGED <<input, disk, logOpen, parent, phase, exc, ret, atexitReg,
                   current, target, stage, seen>>

\* `return value': no try/with block with a cleanup is left this way
return ==
    /\ At("return")
    /\ ret' = Cur.a
    /\ code' = <<>>
    /\ frames' = <<>>
    /\ UNCHANGED <<input, disk, logOpen, parent, phase, exc, atexitReg, current,
                   target, stage, seen>>


\* outcomes of the probe: no response, 200, 404, 500
ProbeStatuses == {0, 200, 404, 500}

\* the call of release_exists in route (release.py 629-631)
probe ==
    /\ At("release_exists")
    /\ \E status \in ProbeStatuses :
          /\ release_exists(status) = "raise" => CanFail
          /\ probed' = probed \cup {status}
          /\ CASE release_exists(status) = "True" ->
                     Done /\ UNCHANGED <<ret, frames>>
               [] release_exists(status) = "False" ->
                     /\ ret' = RetInt(RETCODE_NO_TARGET)
                     /\ code' = <<>>
                     /\ frames' = <<>>
                     /\ UNCHANGED <<exc, faults, raisedIn>>
               [] OTHER ->
                     Raise(Exc("HTTPError")) /\ UNCHANGED <<ret, frames>>
    /\ UNCHANGED <<input, disk, logOpen, parent, phase, atexitReg, current,
                   target, stage, fs0, cmds, cmdsOk, wrote, removed, fired, scopes, launches>>

\* release.py 332-338: enter the try block and run the stage
call_update_system ==
    /\ At("update_system")
    /\ stage' = IF Cur.a THEN "second" ELSE "first"
    /\ frames' = Append(frames, [kind |-> "handler", fn |-> "update_system", ops |-> <<>>])
    /\ code' = update_system(target, current, Cur.a, args.yes, args.log_filename)
    /\ UNCHANGED <<input, disk, logOpen, parent, phase, exc, ret, atexitReg,
                   current, target, seen>>

\* release.py 641-664: what argparse makes of arguments appended to a
\* command line that it parsed as `a'
RECURSIVE parse_args(_, _)
parse_args(a, argv) ==
    IF argv = <<>> THEN a
    ELSE IF Head(argv) = "--no-preliminary-update"
    THEN parse_args([a EXCEPT !.second_stage = TRUE], Tail(argv))
    ELSE IF Head(argv) = "--log-filename" /\ Len(argv) >= 2
    THEN parse_args([a EXCEPT !.log_filename = argv[2]], Tail(Tail(argv)))
    ELSE a

\* release.py 265: stage 1 starts the tool again with the stage-2 flag and
\* waits for it; the new process starts from scratch
subprocess_run ==
    /\ At("subprocess.run")
    /\ Len(launches) < MaxLaunches
    /\ parent' = "waiting"
    /\ args' = parse_args(args, Cur.a)
    /\ launches' = Append(launches, Cur.a)
    /\ phase' = "route"
    /\ code' = <<>>
    /\ frames' = <<>>
    /\ ret' = Unset
    /\ atexitReg' = <<>>
    /\ logOpen' = TRUE
    /\ stage' = "none"
    /\ fs0' = fs
    /\ cmds' = {}
    /\ cmdsOk' = {}
    /\ wrote' = {}
    /\ removed' = {}
    /\ probed' = {}
    /\ fired' = {}
    /\ scopes' = {}
    /\ UNCHANGED <<entry, relFile, free, disk, exc, current, target, faults, raisedIn>>

\* release.py 265-266: subprocess.run(args, check=True) returns in stage 1
\* once stage 2 has exited
subprocess_returns ==
    /\ phase = "exited"
    /\ parent = "waiting"
    /\ parent' = "resumed"
    /\ args' = [args EXCEPT !.second_stage = FALSE]
    /\ phase' = "run"
    /\ stage' = "first"
    /\ frames' = <<[kind |-> "handler", fn |-> "update_system", ops |-> <<>>]>>
    /\ atexitReg' = <<>>
    /\ logOpen' = FALSE
    /\ fs0' = fs
    /\ cmds' = {}
    /\ cmdsOk' = {}
    /\ wrote' = {}
    /\ removed' = {}
    /\ probed' = {}
    /\ fired' = {}
    /\ scopes' = {}
    /\ IF ExitStatus(ret) = 0
       THEN /\ code' = << Op("return", "update_first_stage", RetInt(0), "") >>
            /\ exc' = NoExc
            /\ faults' = 0
            /\ raisedIn' = [fn |-> "", op |-> "", exc |-> NoExc, status |-> 0]
       ELSE /\ code' = <<>>
            /\ exc' = CalledProcessError(ExitStatus(ret))
            /\ faults' = 1
            /\ raisedIn' = [fn |-> "update_first_stage", op |-> "subprocess.run",
                             exc |-> CalledProcessError(ExitStatus(ret)),
                             status |-> ExitStatus(ret)]
    /\ ret' = Unset
    /\ UNCHANGED <<entry, relFile, free, disk, current, target, launches>>

\* bullseye.py 137: os.execvp replaces the program of this process with the
\* installed tool, which starts at main with the extended command line; no
\* atexit function and no finally clause of the replaced program runs.
\* OSError when the executable cannot be started.
os_execvp ==
    /\ At("os.execvp")
    /\ \/ /\ Len(launches) < MaxLaunches
          /\ args' = parse_args(args, Cur.a)
          /\ launches' = Append(launches, Cur.a)
          /\ phase' = "route"
          /\ code' = <<>>
          /\ frames' = <<>>
          /\ ret' = Unset
          /\ atexitReg' = <<>>
          /\ logOpen' = TRUE
          /\ stage' = "none"
          /\ fs0' = fs
          /\ cmds' = {}
          /\ cmdsOk' = {}
          /\ wrote' = {}
          /\ removed' = {}
          /\ probed' = {}
          /\ fired' = {}
          /\ scopes' = {}
          /\ UNCHANGED <<exc, faults, raisedIn>>
       \/ /\ CanFail
          /\ Raise(Exc("OSError"))
          /\ UNCHANGED <<args, logOpen, phase, frames, ret, atexitReg, stage,
                         fs0, cmds, cmdsOk, wrote, removed, probed, fired, scopes,
                         launches>>
    /\ UNCHANGED <<entry, relFile, free, disk, parent, current, target>>

\* a statement that raises whenever it is executed
raise ==
    /\ At("raise")
    /\ Raise(Exc(Cur.a))
    /\ UNCHANGED <<input, disk, logOpen, parent, phase, frames, ret, atexitReg,
                   current, target, stage, fs0, cmds, cmdsOk, wrote, removed,
                   probed, fired, scopes, launches>>

\* an exception leaves the innermost try/with block: a finally clause runs,
\* an `except Exception' clause runs for exceptions derived from Exception
\* and re-raises, the handler of the entry function turns it into a result
unwind ==
    /\ phase = "run"
    /\ code = <<>>
    /\ exc # NoExc
    /\ frames # <<>>
    /\ LET top == frames[Len(frames)]
       IN  /\ frames' = SubSeq(frames, 1, Len(frames) - 1)
           /\ scopes' = scopes \cup {<<top.fn, "exception">>}
           /\ CASE top.kind = "finally" ->
                      code' = top.ops /\ UNCHANGED <<exc, ret>>
                [] top.kind = "except" ->
                      /\ code' = IF IsException(exc) THEN top.ops ELSE <<>>
                      /\ UNCHANGED <<exc, ret>>
                [] OTHER ->
                      /\ ret' = IF top.fn = "update_system"
                                THEN update_system_except(exc)
                                ELSE upgrade_new_debian_release_except(exc)
                      /\ exc' = NoExc
                      /\ code' = top.ops
    /\ UNCHANGED <<input, disk, logOpen, parent, atexitReg, phase, current,
                   target, stage, fs0, cmds, cmdsOk, wrote, removed, probed,
                   fired, launches, faults, raisedIn>>

\* the entry function has returned: main returns and sys.exit runs
finish ==
    /\ phase = "run"
    /\ code = <<>>
    /\ exc = NoExc
    /\ phase' = "exit"
    /\ UNCHANGED <<input, disk, logOpen, parent, code, frames, exc, ret,
                   atexitReg, current, target, stage, seen>>

\* no handler is left: the exception ends the program with a traceback
escape ==
    /\ phase = "run"
    /\ code = <<>>
    /\ exc # NoExc
    /\ frames = <<>>
    /\ ret' = Raised
    /\ exc' = NoExc
    /\ phase' = "exit"
    /\ UNCHANGED <<input, disk, logOpen, parent, code, frames, atexitReg,
                   current, target, stage, seen>>

\* interpreter exit: the registered functions run last-registered first; an
\* exception of one of them is printed and the next one runs
atexit_run ==
    /\ phase = "exit"
    /\ code = <<>>
    /\ atexitReg # <<>>
    /\ LET h == atexitReg[Len(atexitReg)]
       IN  /\ code' = Handler(h)
           /\ fired' = fired \cup {h.fn}
    /\ atexitReg' = SubSeq(atexitReg, 1, Len(atexitReg) - 1)
    /\ exc' = NoExc
    /\ UNCHANGED <<input, disk, logOpen, parent, phase, frames, ret, current,
                   target, stage, fs0, cmds, cmdsOk, wrote, removed, probed,
                   scopes, launches, faults, raisedIn>>

exited ==
    /\ phase = "exit"
    /\ code = <<>>
    /\ atexitReg = <<>>
    /\ phase' = "exited"
    /\ exc' = NoExc
    /\ UNCHANGED <<input, disk, logOpen, parent, code, frames, ret, atexitReg,
                   current, target, stage, seen>>

\* release.py 594-634
route ==
    /\ phase = "route"
    /\ entry = "release"
    /\ phase' = "run"
    /\ LET current_state == get_current_state(relFile, fs[WB_SOURCES_LIST_FILENAME])
           t == get_target_state(current_state, args.reset_url, args.prefix,
                                 args.target_release)
       IN  /\ current' = IF args.version THEN current ELSE current_state
           /\ IF args.version
              THEN /\ code' = << Op("return", "route", RetInt(RETCODE_OK), "") >>
                   /\ UNCHANGED <<target, exc, raisedIn>>
              ELSE IF args.regenerate
              THEN /\ code' = generate_system_config(current_state)
                              \o << Op("return", "route", RetNone, "") >>
                   /\ UNCHANGED <<target, exc, raisedIn>>
              ELSE IF args.reset_packages
              THEN IF ResetPackagesConflict(args)
                   THEN /\ code' = << Op("return", "route", RetInt(RETCODE_EINVAL), "") >>
                        /\ UNCHANGED <<target, exc, raisedIn>>
                   ELSE /\ target' = current_state
                        /\ code' = route_update(current_state, TRUE)
                        /\ UNCHANGED <<exc, raisedIn>>
              ELSE IF t.raises # ""
              THEN /\ exc' = Exc(t.raises)
                   /\ raisedIn' = [fn |-> "get_target_state", op |-> "raise",
                                    exc |-> Exc(t.raises), status |-> 0]
                   /\ code' = <<>>
                   /\ UNCHANGED target
              ELSE /\ target' = t.state
                   /\ code' = IF SameState(t.state, current_state)
                              THEN << Op("return", "route", RetInt(RETCODE_OK), "") >>
                              ELSE route_update(t.state, args.second_stage)
                   /\ UNCHANGED <<exc, raisedIn>>
    /\ UNCHANGED <<input, disk, logOpen, parent, frames, ret, atexitReg, stage,
                   fs0, cmds, cmdsOk, wrote, removed, probed, fired, scopes, launches, faults>>

\* the command-line layer that calls bullseye.upgrade_new_debian_release is
\* not part of the sources at hand (release.py has a transition of its own,
\* lines 464-591, which route calls); the stage is "chosen by a
\* caller-supplied flag": --no-preliminary-update
no_preliminary_update == args.second_stage

\* bullseye.py 362-367: the caller passes get_current_state()
upgrade_new_debian_release_call ==
    /\ phase = "route"
    /\ entry = "bullseye"
    /\ phase' = "run"
    /\ stage' = IF no_preliminary_update THEN "bullseye" ELSE "tool"
    /\ LET state == get_current_state(relFile, fs[WB_SOURCES_LIST_FILENAME])
       IN  /\ current' = state
           /\ target' = make_new_state(state)
           /\ code' = IF ~enough_free_space(free.cache, free.system)
                      THEN << Op("return", "upgrade_new_debian_release", RetInt(1), "") >>
                      ELSE upgrade_new_debian_release(state, args.log_filename, args.yes,
                                                      args.confirm_steps,
                                                      no_preliminary_update)
    /\ UNCHANGED <<input, disk, logOpen, parent, frames, exc, ret, atexitReg, seen>>

Next ==
    \/ route
    \/ upgrade_new_debian_release_call
    \/ try
    \/ end_try
    \/ if_retcode_not_ok
    \/ return_retcode
    \/ probe
    \/ call_update_system
    \/ user_confirm
    \/ raise
    \/ os_execvp
    \/ run_apt
    \/ run_cmd
    \/ write
    \/ remove
    \/ purge_cache
    \/ atexit_register
    \/ atexit_unregister
    \/ close_log_handlers
    \/ subprocess_run
    \/ subprocess_returns
    \/ return
    \/ unwind
    \/ finish
    \/ escape
    \/ atexit_run
    \/ exited

Spec == Init /\ [][Next]_vars

(***************************************************************************)
(* The transition to a new Debian release of release.py, started by route  *)
(* for --update-debian-release                                             *)
(***************************************************************************)
\* release.py 424-425: if not os.path.exists(path): os.mkdir(path)
os_mkdir ==
    /\ At("os.mkdir")
    /\ Done
    /\ fs' = IF fs[Cur.a].exists THEN fs ELSE [fs EXCEPT ![Cur.a] = File(<<>>)]
    /\ UNCHANGED <<input, aptCache, masked, held, logOpen, parent, phase, frames,
                   ret, atexitReg, current, target, stage, fs0, cmds, cmdsOk,
                   wrote, removed, probed, fired, scopes, launches>>

\* release.py 428-430, 449-452: if os.path.exists(src): os.rename(src, dst)
os_rename ==
    /\ At("os.rename")
    /\ Done
    /\ fs' = IF fs[Cur.a].exists
             THEN [fs EXCEPT ![Cur.b] = fs[Cur.a], ![Cur.a] = Absent]
             ELSE fs
    /\ UNCHANGED <<input, aptCache, masked, held, logOpen, parent, phase, frames,
                   ret, atexitReg, current, target, stage, fs0, cmds, cmdsOk,
                   wrote, removed, probed, fired, scopes, launches>>

\* release.py 444-445: if os.path.exists(path): shutil.rmtree(path); Cur.b:
\* the files of the model that are under the path
shutil_rmtree ==
    /\ At("shutil.rmtree")
    /\ Done
    /\ fs' = IF fs[Cur.a].exists
             THEN [n \in DOMAIN fs |-> IF n = Cur.a \/ n \in Cur.b THEN Absent ELSE fs[n]]
             ELSE fs
    /\ UNCHANGED <<input, aptCache, masked, held, logOpen, parent, phase, frames,
                   ret, atexitReg, current, target, stage, fs0, cmds, cmdsOk,
                   wrote, removed, probed, fired, scopes, launches>>

\* the files of the Debian sources lists
DebianFileNames ==
    {APT_SOURCE_LIST_OLD_PATH, TEMP_DEBIAN_UPSTREAM_LIST}
    \cup {InSourceListPath(APT_SOURCE_LIST_FILES[i]) : i \in 1..Len(APT_SOURCE_LIST_FILES)}
    \cup {InSourceListOldPath(APT_SOURCE_LIST_FILES[i]) : i \in 1..Len(APT_SOURCE_LIST_FILES)}

\* a sources list of the stretch system
StretchList == File(<< <<"deb", " ", "http://deb.debian.org/debian", " ", "stretch", " ", "main">> >>)

\* command lines with --update-debian-release
UpdateDebianReleaseArgsSet ==
    { [NoArgs EXCEPT !.yes = y, !.confirm_steps = cs] : y \in BOOLEAN, cs \in BOOLEAN }

\* a stretch system with or without the Debian lists, with or without a
\* directory left by an earlier run
UpdateDebianReleaseInit ==
    /\ entry = "update_debian_release"
    /\ args \in UpdateDebianReleaseArgsSet
    /\ relFile \in ReleaseInfos
    /\ free = [cache |-> vfs_megabytes(1024), system |-> vfs_megabytes(1024)]
    /\ \E src \in InitialSourcesLists(relFile), lists \in SUBSET {1, 2}, old \in BOOLEAN :
          fs = [n \in FileNames \cup DebianFileNames |->
                   IF n = WB_SOURCES_LIST_FILENAME THEN src
                   ELSE IF n = WB_RELEASE_APT_PREFERENCES_FILENAME
                   THEN generate_release_apt_preferences(
                            SystemState(relFile.suite, relFile.target,
                                        relFile.repo_prefix, TRUE), WB_ORIGIN)
                   ELSE IF \E i \in lists : n = InSourceListPath(APT_SOURCE_LIST_FILES[i])
                   THEN StretchList
                   ELSE IF n = APT_SOURCE_LIST_OLD_PATH /\ old THEN File(<<>>)
                   ELSE Absent]
    /\ aptCache = "present"
    /\ masked = {}
    /\ held = {}
    /\ logOpen = TRUE
    /\ parent = "none"
    /\ phase = "route"
    /\ code = <<>>
    /\ frames = <<>>
    /\ exc = NoExc
    /\ ret = Unset
    /\ atexitReg = <<>>
    /\ current = NoState
    /\ target = NoState
    /\ stage = "none"
    /\ fs0 = fs
    /\ cmds = {}
    /\ cmdsOk = {}
    /\ wrote = {}
    /\ removed = {}
    /\ probed = {}
    /\ fired = {}
    /\ scopes = {}
    /\ launches = <<>>
    /\ faults = 0
    /\ raisedIn = [fn |-> "", op |-> "", exc |-> NoExc, status |-> 0]

\* release.py 600-606: route with args.update_debian_release; 472-473: the
\* search for the controller version, outside the try block, raises
\* AttributeError when the target does not match
route_update_debian_release ==
    /\ phase = "route"
    /\ entry = "update_debian_release"
    /\ phase' = "run"
    /\ LET current_state == get_current_state(relFile, fs[WB_SOURCES_LIST_FILENAME])
       IN  /\ current' = current_state
           /\ IF controller_version_of(current_state.target) = <<>>
              THEN /\ exc' = Exc("AttributeError")
                   /\ raisedIn' = [fn |-> "release.upgrade_new_debian_release",
                                    op |-> "raise", exc |-> Exc("AttributeError"),
                                    status |-> 0]
                   /\ code' = <<>>
              ELSE /\ code' = release_upgrade_new_debian_release(
                                  current_state, args.log_filename, args.yes,
                                  args.confirm_steps)
                   /\ UNCHANGED <<exc, raisedIn>>
    /\ UNCHANGED <<input, disk, logOpen, parent, frames, ret, atexitReg, target,
                   stage, fs0, cmds, cmdsOk, wrote, removed, probed, fired, scopes,
                   launches, faults>>

UpdateDebianReleaseNext ==
    \/ route_update_debian_release
    \/ try
    \/ end_try
    \/ probe
    \/ user_confirm
    \/ run_apt
    \/ run_cmd
    \/ write
    \/ remove
    \/ os_mkdir
    \/ os_rename
    \/ shutil_rmtree
    \/ purge_cache
    \/ atexit_register
    \/ atexit_unregister
    \/ return
    \/ unwind
    \/ finish
    \/ atexit_run
    \/ exited

UpdateDebianReleaseSpec == UpdateDebianReleaseInit /\ [][UpdateDebianReleaseNext]_vars


(***************************************************************************)
(* The pure functions of the state model, the generator and the            *)
(* precondition checker, applied to inputs of their own                    *)
(***************************************************************************)
\* prefixes asked for with --prefix: with slashes, spaces or a tab around
\* them, with a space inside, and a lone slash
FnRequestPrefixes ==
    { NoString, <<"dev">>, <<"/", "my", "/", "prefix", "/">>, <<" ", "dev", " ">>,
      <<"\t", "dev">>, <<"my", " ", "prefix">>, <<"/">> }

\* REPO_PREFIX values of the release-identity file, which
\* read_wb_release_file only strips of quotes
FnReleasePrefixes == { <<>>, <<"my", "/", "prefix">>, <<"/", "old", "/">> }

FnTargets ==
    { <<"wb6", "/", "stretch">>, <<"wb7", "/", "bullseye">>,
      <<"wb5", "/", "stretch", "/", "x">>, <<"wb6">> }

FnReleaseInfos ==
    [release_name : {"wb-2108"}, suite : Suites, target : FnTargets,
     repo_prefix : FnReleasePrefixes]

FnArgsSet ==
    { [NoArgs EXCEPT !.reset_url = ru, !.prefix = p, !.target_release = t] :
        ru \in BOOLEAN, p \in FnRequestPrefixes, t \in {NoString} \cup Suites }

\* what os.statvfs reports: whole megabytes in blocks of 512 bytes, and
\* one byte less than each threshold
FnStatvfs(limit_mb) ==
    { vfs_megabytes(m) : m \in {10, limit_mb - 1, limit_mb, 1024} }
    \cup { FakeStatvfs(limit_mb * MEGABYTE - 1, 1) }

FnFreeSpaces ==
    { [cache |-> c, system |-> u] :
        c \in FnStatvfs(min_cache_free_space_mb),
        u \in FnStatvfs(min_system_free_space_mb) }

\* outcomes of the probe: no response, 2xx, 3xx, 4xx, 5xx
FnProbeStatuses == {0, 200, 204, 304, 400, 404, 499, 500, 503}

AmpleSpace == [cache |-> vfs_megabytes(1024), system |-> vfs_megabytes(1024)]

FnInit ==
    /\ entry = "fn"
    /\ \/ args \in FnArgsSet /\ relFile \in FnReleaseInfos /\ free = AmpleSpace
       \/ /\ args = NoArgs
          /\ relFile \in {r \in FnReleaseInfos : r.repo_prefix = <<>>}
          /\ free \in FnFreeSpaces
    /\ \E src \in InitialSourcesLists(relFile) :
          fs = [n \in FileNames |->
                   IF n = WB_SOURCES_LIST_FILENAME THEN src ELSE Absent]
    /\ aptCache = "present"
    /\ masked = {}
    /\ held = {}
    /\ logOpen = TRUE
    /\ parent = "none"
    /\ phase = "route"
    /\ code = <<>>
    /\ frames = <<>>
    /\ exc = NoExc
    /\ ret = Unset
    /\ atexitReg = <<>>
    /\ current = NoState
    /\ target = NoState
    /\ stage = "none"
    /\ fs0 = fs
    /\ cmds = {}
    /\ cmdsOk = {}
    /\ wrote = {}
    /\ removed = {}
    /\ probed = {}
    /\ fired = {}
    /\ scopes = {}
    /\ launches = <<>>
    /\ faults = 0
    /\ raisedIn = [fn |-> "", op |-> "", exc |-> NoExc, status |-> 0]

\* what no function of this section touches
FnFrame ==
    UNCHANGED <<input, aptCache, masked, held, logOpen, parent, code, frames,
                atexitReg, fs0, cmds, cmdsOk, removed, fired, scopes, launches,
                faults, raisedIn>>

\* release.py 130-160: the current state is read and the target computed
\* from it and the request
fn_get_target_state ==
    /\ entry = "fn" /\ stage = "none"
    /\ stage' = "get_target_state"
    /\ phase' = "exited"
    /\ current' = get_current_state(relFile, fs[WB_SOURCES_LIST_FILENAME])
    /\ LET t == get_target_state(current', args.reset_url, args.prefix,
                                 args.target_release)
       IN  IF t.raises # ""
           THEN exc' = Exc(t.raises) /\ UNCHANGED target
           ELSE target' = t.state /\ UNCHANGED exc
    /\ UNCHANGED <<ret, probed, fs, wrote>>
    /\ FnFrame

\* release.py 169-180: the sources list is written for the computed target
fn_generate_sources_list ==
    /\ entry = "fn" /\ stage = "get_target_state" /\ exc = NoExc
    /\ stage' = "generate_sources_list"
    /\ fs' = [fs EXCEPT ![WB_SOURCES_LIST_FILENAME] =
                  generate_sources_list(target, DEFAULT_REPO_URL)]
    /\ wrote' = wrote \cup {WB_SOURCES_LIST_FILENAME}
    /\ UNCHANGED <<phase, current, target, ret, exc, probed>>
    /\ FnFrame

\* release.py 119-127: the suite is read from the sources list as it is
fn_read_apt_sources_list_suite ==
    /\ entry = "fn" /\ stage \in {"none", "generate_sources_list"}
    /\ stage' = "read_apt_sources_list_suite"
    /\ phase' = "exited"
    /\ LET r == read_apt_sources_list_suite(fs[WB_SOURCES_LIST_FILENAME])
       IN  IF r.raises # ""
           THEN exc' = Exc(r.raises) /\ UNCHANGED ret
           ELSE ret' = RetStr(r.suite) /\ UNCHANGED exc
    /\ UNCHANGED <<current, target, probed, fs, wrote>>
    /\ FnFrame

\* bullseye.py 300-302, applied to the current state
fn_make_new_state ==
    /\ entry = "fn" /\ stage = "none"
    /\ stage' = "make_new_state"
    /\ phase' = "exited"
    /\ current' = get_current_state(relFile, fs[WB_SOURCES_LIST_FILENAME])
    /\ target' = make_new_state(current')
    /\ UNCHANGED <<ret, exc, probed, fs, wrote>>
    /\ FnFrame

\* bullseye.py 300-302, applied to its own result
fn_make_new_state_again ==
    /\ entry = "fn" /\ stage = "make_new_state"
    /\ stage' = "make_new_state_again"
    /\ current' = target
    /\ target' = make_new_state(target)
    /\ UNCHANGED <<phase, ret, exc, probed, fs, wrote>>
    /\ FnFrame

\* release.py 315-329
fn_release_exists ==
    /\ entry = "fn" /\ stage = "none"
    /\ stage' = "release_exists"
    /\ phase' = "exited"
    /\ \E status \in FnProbeStatuses :
          /\ probed' = {status}
          /\ CASE release_exists(status) = "True" ->
                     ret' = RetBool(TRUE) /\ UNCHANGED exc
               [] release_exists(status) = "False" ->
                     ret' = RetBool(FALSE) /\ UNCHANGED exc
               [] OTHER ->
                     /\ exc' = Exc(IF status = 0 THEN "URLError" ELSE "HTTPError")
                     /\ UNCHANGED ret
    /\ UNCHANGED <<current, target, fs, wrote>>
    /\ FnFrame

\* bullseye.py 46-62
fn_enough_free_space ==
    /\ entry = "fn" /\ stage = "none"
    /\ stage' = "enough_free_space"
    /\ phase' = "exited"
    /\ ret' = RetBool(enough_free_space(free.cache, free.system))
    /\ UNCHANGED <<current, target, exc, probed, fs, wrote>>
    /\ FnFrame

FnNext ==
    \/ fn_get_target_state
    \/ fn_generate_sources_list
    \/ fn_read_apt_sources_list_suite
    \/ fn_make_new_state
    \/ fn_make_new_state_again
    \/ fn_release_exists
    \/ fn_enough_free_space

FnSpec == FnInit /\ [][FnNext]_vars

(***************************************************************************)
(* Properties                                                              *)
(***************************************************************************)
SourcesList == fs[WB_SOURCES_LIST_FILENAME]
Preferences == fs[WB_RELEASE_APT_PREFERENCES_FILENAME]

\* both files hold what generate_system_config writes for `state'
ConfigFor(state) ==
    /\ SourcesList = generate_sources_list(state, DEFAULT_REPO_URL)
    /\ Preferences = generate_release_apt_preferences(state, WB_ORIGIN)

\* both files held that content when the process started
StartedWithConfigFor(state) ==
    /\ fs0[WB_SOURCES_LIST_FILENAME] = generate_sources_list(state, DEFAULT_REPO_URL)
    /\ fs0[WB_RELEASE_APT_PREFERENCES_FILENAME]
           = generate_release_apt_preferences(state, WB_ORIGIN)

ConfigAsAtStart ==
    /\ SourcesList = fs0[WB_SOURCES_LIST_FILENAME]
    /\ Preferences = fs0[WB_RELEASE_APT_PREFERENCES_FILENAME]

\* a process that ran stage 2 of release.py has exited
Stage2Exited == entry = "release" /\ phase = "exited" /\ stage = "second"

\* ... and the first thing that went wrong in it was in run_system_update
UpdateFailedInStage2 ==
    Stage2Exited /\ target # current /\ raisedIn.fn = "run_system_update"

RestoreRegistered ==
    \E i \in 1..Len(atexitReg) : atexitReg[i].fn = "_restore_system_config"

DistUpgradeDone == <<"apt-get", "dist-upgrade">> \in cmdsOk

NoMutation ==
    /\ wrote = {}
    /\ removed = {}
    /\ cmds = {}
    /\ fs = fs0
    /\ aptCache = "present"
    /\ stage = "none"

OneOfEach(a, b) ==
    /\ SourcesList = generate_sources_list(a, DEFAULT_REPO_URL)
    /\ Preferences = generate_release_apt_preferences(b, WB_ORIGIN)
    /\ ~ConfigFor(a)
    /\ ~ConfigFor(b)

\* C2 as claimed: starting from a repository list and a pin file that both
\* describe the current state, when a stage-2 process has exited, for
\* whatever reason, the two files are never one of the original state and
\* one of the target state.
C2_NeverOneOfEach ==
    (Stage2Exited /\ StartedWithConfigFor(current)) =>
        (~OneOfEach(target, current) /\ ~OneOfEach(current, target))

\* C3: once the dist-upgrade of stage 2 of a release switch has succeeded,
\* no later step runs while the restore is still registered, and at process
\* exit both files hold the content generated for the target and the
\* restore has not run.
C3_CommitBeforeLaterSteps ==
    /\ (Stage2Exited /\ target # current /\ DistUpgradeDone) =>
           (ConfigFor(target) /\ "_restore_system_config" \notin fired)
    /\ (/\ entry = "release" /\ phase = "run" /\ stage = "second"
        /\ target # current /\ DistUpgradeDone
        /\ code # <<>> /\ Cur.op # "atexit.unregister") => ~RestoreRegistered

C3_Witness ==
    /\ Stage2Exited /\ target # current /\ DistUpgradeDone
    /\ raisedIn.fn = "update_second_stage"
    /\ ConfigFor(target)
    /\ ~ConfigFor(current)

SwitchRequest ==
    entry = "release" /\ ~args.version /\ ~args.regenerate /\ ~args.reset_packages

RequestedState ==
    get_target_state(current, args.reset_url, args.prefix, args.target_release)

\* C5: a release switch whose target state equals the current state in all
\* four fields makes route return RETCODE_OK without a file write, an
\* external command, a probe of the remote release or a call of
\* update_system.
C5_SameStateIsNoOp ==
    (/\ SwitchRequest /\ phase = "exited"
     /\ RequestedState.raises = ""
     /\ RequestedState.state = current) =>
        (ret = RetInt(RETCODE_OK) /\ NoMutation /\ probed = {})

C5_Witness ==
    /\ SwitchRequest /\ phase = "exited"
    /\ RequestedState.raises = ""
    /\ RequestedState.state = current
    /\ Truthy(args.target_release)
    /\ ret = RetInt(RETCODE_OK)

\* C6: when the probe of the remote release got a 4xx response, route
\* returns RETCODE_NO_TARGET without calling update_system, writing a file
\* or running a command.
C6_AbsentTargetStops ==
    (entry = "release" /\ phase = "exited" /\ (\E st \in probed : st >= 400 /\ st < 500)) =>
        (ret = RetInt(RETCODE_NO_TARGET) /\ NoMutation)

C6_Witness ==
    /\ entry = "release" /\ phase = "exited" /\ 404 \in probed
    /\ target # current
    /\ ret = RetInt(RETCODE_NO_TARGET)

ConflictingFlags ==
    \/ args.reset_packages /\ ResetPackagesConflict(args)
    \/ args.reset_url /\ Truthy(args.prefix)

\* C7 as claimed: a request with conflicting flags (--reset-packages with a
\* release change, or --reset-url with a prefix) ends with RETCODE_EINVAL
\* and without any mutation.
C7_ConflictingFlagsRejected ==
    (/\ entry = "release" /\ phase = "exited"
     /\ ~args.version /\ ~args.regenerate
     /\ ConflictingFlags) =>
        (ret = RetInt(RETCODE_EINVAL) /\ NoMutation /\ probed = {})

\* upgrade_new_debian_release of bullseye.py has returned
BullseyeReturned == entry = "bullseye" /\ phase = "exited"

\* exactly one operation failed, and it was an external command
OneCommandFailed == faults = 1 /\ raisedIn.op \in {"run_apt", "run_cmd"}

\* C8 as claimed: in the major transition, after a failure or interrupt at
\* any single external command, no package is on hold when
\* upgrade_new_debian_release returns.
C8_NothingHeldAfterFailure == (BullseyeReturned /\ OneCommandFailed) => held = {}

\* C8 as amended: ... at any single external command other than the
\* `apt-mark unhold' that releases the packages ...
C8_NothingHeldUnlessUnholdFails ==
    (BullseyeReturned /\ OneCommandFailed /\ raisedIn.fn # "apt_mark_unhold") =>
        held = {}

C8_Witness ==
    /\ BullseyeReturned /\ OneCommandFailed
    /\ raisedIn.fn = "apt_upgrade"
    /\ <<"apt-mark", "hold">> \o held_packages \in cmdsOk
    /\ <<"apt-mark", "unhold">> \o held_packages \in cmdsOk
    /\ held = {}

\* the one command that failed
FailedCommands == cmds \ cmdsOk

\* C9 as claimed, not counting a service whose own `systemctl unmask' is
\* the command that failed: in the major transition, after a failure or
\* interrupt at any single external command, no other service is masked
\* when upgrade_new_debian_release returns.
C9_NothingMaskedAfterFailure ==
    (BullseyeReturned /\ OneCommandFailed) =>
        \A s \in masked : <<"systemctl", "unmask", s>> \in FailedCommands

\* C10 as claimed: when the scope of apply_new_system_config is left with an
\* exception (a failed command, a decline, an interrupt) the configuration
\* of the original state is regenerated and the package-index cache purged
\* before upgrade_new_debian_release returns; when it is left normally the
\* new configuration stays and the cache is not purged.
C10_ConfigRestoredOnAbnormalExit ==
    /\ (/\ BullseyeReturned /\ faults = 1
        /\ raisedIn.op \in {"run_apt", "run_cmd", "user_confirm"}
        /\ <<"apply_new_system_config", "exception">> \in scopes) =>
           (ConfigFor(current) /\ aptCache = "purged")
    /\ (BullseyeReturned /\ <<"apply_new_system_config", "normal">> \in scopes) =>
           (ConfigFor(target) /\ aptCache = "present")

ProgressFlag == fs[PROGRESS_FLAG]

InterruptedAtCommand ==
    OneCommandFailed /\ raisedIn.exc = Exc("KeyboardInterrupt")

\* C12: in the major transition a KeyboardInterrupt raised at an external
\* command (the only failure of the run) makes upgrade_new_debian_release
\* return RETCODE_USER_ABORT: the function returns a result, and the result
\* is neither RETCODE_FAULT nor RETCODE_OK.
C12_InterruptIsUserAbort ==
    /\ (BullseyeReturned /\ InterruptedAtCommand) => ret = RetInt(RETCODE_USER_ABORT)
    /\ (entry = "bullseye" /\ InterruptedAtCommand) => ret # Raised

C12_Witness ==
    /\ BullseyeReturned /\ InterruptedAtCommand
    /\ raisedIn.fn = "apt_upgrade"
    /\ <<"hold_packages", "exception">> \in scopes
    /\ ret = RetInt(RETCODE_USER_ABORT)

\* the stage run by update_system was left with an exception
StageFailed ==
    /\ entry = "release"
    /\ stage \in {"first", "second"}
    /\ <<"update_system", "exception">> \in scopes

\* C13: update_system turns every failure of the stage it runs into a
\* result, for stage 1 and for stage 2: UserAbortException and
\* KeyboardInterrupt into RETCODE_USER_ABORT, CalledProcessError into the
\* exit status of the command, anything else into RETCODE_FAULT.
C13_StageFailureBecomesResult ==
    /\ (entry = "release" /\ stage \in {"first", "second"}) => ret # Raised
    /\ (StageFailed /\ phase = "exited") =>
          ret = CASE raisedIn.exc.type = "UserAbortException" -> RetInt(RETCODE_USER_ABORT)
                  [] raisedIn.exc.type = "KeyboardInterrupt" -> RetInt(RETCODE_USER_ABORT)
                  [] raisedIn.exc.type = "CalledProcessError" -> RetInt(raisedIn.exc.code)
                  [] OTHER -> RetInt(RETCODE_FAULT)

C13_Witness ==
    /\ StageFailed /\ phase = "exited"
    /\ stage = "first" /\ parent = "none"
    /\ raisedIn.exc = CalledProcessError(2)
    /\ ret = RetInt(2)

\* the single failure of the run: apt-get exited with a status other than 0
AptFailed ==
    /\ phase = "exited"
    /\ faults = 1
    /\ raisedIn.op = "run_apt"
    /\ raisedIn.status # 0

\* C14: when apt-get exits with status c # 0 during an update, run_apt
\* raises UserAbortException for c = 1 and the CalledProcessError of the
\* command for any other c, and the result of the orchestrator is
\* RETCODE_USER_ABORT for c = 1 and c for any other c.
C14_AptExitStatusPropagated ==
    AptFailed =>
        IF raisedIn.status = 1
        THEN /\ raisedIn.exc = Exc("UserAbortException")
             /\ ret = RetInt(RETCODE_USER_ABORT)
        ELSE /\ raisedIn.exc = CalledProcessError(raisedIn.status)
             /\ ret = RetInt(raisedIn.status)

C14_Witness ==
    /\ AptFailed
    /\ entry = "release" /\ stage = "second"
    /\ raisedIn.status = 2
    /\ ret = RetInt(2)

\* the process runs stage 1 of release.py and has not handed over yet
InStage1 == entry = "release" /\ stage = "first" /\ parent = "none"

Stage1Commands ==
    { <<"apt-get", "update">>, <<"apt-get", "dist-upgrade", "-s", "-V">>,
      <<"apt-get", "dist-upgrade">> }

\* C15: stage 1 asks for confirmation first and, when the user declines,
\* runs no command and starts nothing; otherwise it runs apt-get update and
\* dist-upgrade and nothing else, writes no file, and only when they have
\* succeeded starts the tool again, with --no-preliminary-update appended to
\* its arguments and with --log-filename <file> when a log file is in use.
C15_Stage1Order ==
    /\ (InStage1 /\ raisedIn.fn = "update_first_stage" /\ raisedIn.op = "user_confirm") =>
           (cmds = {} /\ launches = <<>>)
    /\ InStage1 =>
           (wrote = {} /\ removed = {} /\ fs = fs0 /\ cmds \subseteq Stage1Commands)
    /\ (InStage1 /\ At("subprocess.run")) =>
           /\ faults = 0
           /\ {<<"apt-get", "update">>, <<"apt-get", "dist-upgrade">>} \subseteq cmdsOk
           /\ launches = <<>>
    /\ (entry = "release" /\ launches # <<>>) =>
           launches[1] = IF args.log_filename = ""
                         THEN <<"--no-preliminary-update">>
                         ELSE <<"--no-preliminary-update", "--log-filename",
                                args.log_filename>>

C15_Witness ==
    /\ entry = "release" /\ stage = "second" /\ parent = "waiting"
    /\ phase = "exited"
    /\ launches = << <<"--no-preliminary-update", "--log-filename", LogFile>> >>
    /\ args.second_stage

\* what the tool self-upgrade of the major transition runs
ToolUpgradeCommands ==
    { <<"apt-get", "update">>, <<"apt-get", "install", "wb-update-manager">> }

\* C16 as claimed: a process started without the stage-2 flag runs only
\* stage 1, so it never writes the transient upgrade-force preferences of
\* stage 2 (a --regenerate request runs no stage).
C16_UnflaggedRunsOnlyStage1 ==
    (entry = "release" /\ ~args.second_stage /\ ~args.regenerate) =>
        WB_TEMP_UPGRADE_PREFERENCES_FILENAME \notin wrote

\* C16 as amended: the tool is started by the tool at most once, and only by
\* a process without the stage-2 flag; a release switch without the flag
\* writes no file and runs only the commands of stage 1; the major
\* transition without the flag runs only the tool self-upgrade; a process
\* with the flag, or a packages reset, runs no command before stage 2 has
\* written its transient preferences, and in the major transition it does
\* not repeat the tool self-upgrade.
C16_OneStagePerProcess ==
    /\ Len(launches) <= 1
    /\ (At("subprocess.run") \/ At("os.execvp")) =>
           (~args.second_stage /\ ~args.reset_packages /\ launches = <<>>)
    /\ (entry = "release" /\ ~args.second_stage /\ ~args.reset_packages
          /\ ~args.regenerate) =>
           (wrote = {} /\ removed = {} /\ cmds \subseteq Stage1Commands)
    /\ (entry = "release" /\ (args.second_stage \/ args.reset_packages)
          /\ cmds # {}) =>
           WB_TEMP_UPGRADE_PREFERENCES_FILENAME \in wrote
    /\ (entry = "bullseye" /\ ~args.second_stage) =>
           /\ cmds \subseteq ToolUpgradeCommands
           /\ wrote \subseteq {TOOL_UPDATE_DONE_FLAG, TEMP_APT_PREFERENCE_FOR_TOOL,
                               PROGRESS_FLAG}
    /\ (entry = "bullseye" /\ args.second_stage) =>
           wrote \cap {TOOL_UPDATE_DONE_FLAG, TEMP_APT_PREFERENCE_FOR_TOOL} = {}

\* the major transition handed over once and the process with the flag
\* completed the transition
C16_Witness ==
    /\ entry = "bullseye"
    /\ launches = << <<NO_PRELIMINARY_UPDATE_ARGNAME>> >>
    /\ args.second_stage
    /\ phase = "exited"
    /\ ret = RetInt(RETCODE_OK)
    /\ <<"apt-get", "dist-upgrade">> \in cmdsOk

\* the user declined the confirmation that update_second_stage asks for
Stage2Declined ==
    /\ entry = "release" /\ stage = "second"
    /\ raisedIn.fn = "update_second_stage" /\ raisedIn.op = "user_confirm"
    /\ raisedIn.exc = Exc("UserAbortException")

\* C17: when the user declines the stage-2 confirmation nothing has been
\* done and nothing is done afterwards: no file is opened for writing or
\* removed, the files are as they were, no function is registered with
\* atexit or run at exit, no command is started, and the result is
\* RETCODE_USER_ABORT.
C17_DeclineDoesNothing ==
    Stage2Declined =>
        /\ wrote = {} /\ removed = {} /\ fs = fs0
        /\ atexitReg = <<>> /\ fired = {}
        /\ cmds = {}
        /\ faults = 1
        /\ phase = "exited" => ret = RetInt(RETCODE_USER_ABORT)

\* a release switch was declined at the confirmation of stage 2
C17_Witness ==
    /\ Stage2Declined
    /\ target # current
    /\ phase = "exited"
    /\ ret = RetInt(RETCODE_USER_ABORT)

\* a packages-reset request that route accepted
PackagesReset ==
    /\ entry = "release" /\ phase # "route"
    /\ args.reset_packages /\ ~args.regenerate /\ ~args.version
    /\ ~args.reset_url /\ args.prefix = NoString /\ args.target_release = NoString

\* C18: a packages-reset request runs stage 2 at once with the current
\* state as target: the tool is not started again, the sources list and the
\* release preferences are never opened for writing and keep their content,
\* no restore of the configuration is registered or run, every command runs
\* with the transient preferences written for the current state, autoremove
\* runs only after update and dist-upgrade have succeeded, and a run without
\* failure ends with autoremove done.
C18_PackagesResetRunsStage2 ==
    PackagesReset =>
        /\ target = current
        /\ stage \in {"none", "second"} /\ launches = <<>> /\ parent = "none"
        /\ wrote \subseteq {WB_TEMP_UPGRADE_PREFERENCES_FILENAME}
        /\ fs[WB_SOURCES_LIST_FILENAME] = fs0[WB_SOURCES_LIST_FILENAME]
        /\ fs[WB_RELEASE_APT_PREFERENCES_FILENAME] = fs0[WB_RELEASE_APT_PREFERENCES_FILENAME]
        /\ \A i \in 1..Len(atexitReg) : atexitReg[i].fn # "_restore_system_config"
        /\ "_restore_system_config" \notin fired
        /\ (cmds # {} /\ WB_TEMP_UPGRADE_PREFERENCES_FILENAME \notin removed) =>
               /\ fs[WB_TEMP_UPGRADE_PREFERENCES_FILENAME].exists
               /\ \E i \in 1..Len(fs[WB_TEMP_UPGRADE_PREFERENCES_FILENAME].lines) :
                      fs[WB_TEMP_UPGRADE_PREFERENCES_FILENAME].lines[i] =
                          <<"Pin:", " ", "release", " ", "o=", "wirenboard", ",", " ", "a=">>
                              \o current.suite
        /\ <<"apt-get", "autoremove">> \in cmds =>
               {<<"apt-get", "update">>, <<"apt-get", "dist-upgrade">>} \subseteq cmdsOk
        /\ (phase = "exited" /\ faults = 0 /\ wrote # {}) =>
               <<"apt-get", "autoremove">> \in cmdsOk

\* a packages reset ran to its end
C18_Witness ==
    /\ PackagesReset
    /\ ~args.second_stage
    /\ phase = "exited"
    /\ faults = 0
    /\ <<"apt-get", "autoremove">> \in cmdsOk
    /\ WB_TEMP_UPGRADE_PREFERENCES_FILENAME \in removed

\* the current state was read as inconsistent and the release switch asks
\* for the suite and the prefix the system has
SameRequestOnInconsistent ==
    /\ SwitchRequest /\ phase # "route"
    /\ ~current.consistent
    /\ args.target_release \in {NoString, current.suite}
    /\ \/ ~args.reset_url /\ args.prefix = NoString
       \/ /\ ~args.reset_url
          /\ args.prefix = <<"/", "my", "/", "prefix", "/">>
          /\ current.repo_prefix = <<"my", "/", "prefix">>
       \/ args.reset_url /\ args.prefix = NoString /\ current.repo_prefix = <<>>

\* C19: for an inconsistent current state and a request for the suite and
\* prefix the system has, the target is the current state with consistent
\* set, so it differs from the current state: route does not return at once
\* but probes the remote release; when the release exists a process without
\* the stage-2 flag goes on to stage 1, and stage 2 runs its commands with
\* the sources list and release preferences regenerated for the target.
C19_InconsistentStateIsRepaired ==
    SameRequestOnInconsistent =>
        /\ target = [current EXCEPT !.consistent = TRUE]
        /\ (phase = "exited" /\ parent # "resumed") => probed # {}
        /\ (200 \in probed /\ ~args.second_stage) =>
               (At("update_system") \/ stage = "first")
        /\ (200 \in probed /\ args.second_stage) =>
               (At("update_system") \/ stage = "second")
        /\ (stage = "second" /\ cmds # {}) =>
               {WB_SOURCES_LIST_FILENAME, WB_RELEASE_APT_PREFERENCES_FILENAME}
                   \subseteq wrote
        /\ (stage = "second" /\ cmds # {} /\ "_restore_system_config" \notin fired) =>
               ConfigFor(target)

\* stage 1 handed over and stage 2 left a sources list that agrees with
\* the release-identity file
C19_Witness ==
    /\ SameRequestOnInconsistent
    /\ launches # <<>>
    /\ stage = "second"
    /\ phase = "exited"
    /\ ExitStatus(ret) = 0
    /\ ConfigFor(target)
    /\ fs0[WB_SOURCES_LIST_FILENAME] # SourcesList
    /\ get_current_state(relFile, SourcesList).consistent

RestartCommand == <<"invoke-rc.d", "wb-rules", "restart">>

\* stage 2 of a release switch committed the target configuration, ran
\* autoremove, and then the restart of wb-rules failed; nothing else failed
RestartFailedAfterCommit ==
    /\ Stage2Exited /\ target # current
    /\ <<"apt-get", "autoremove">> \in cmdsOk
    /\ RestartCommand \in cmds \ cmdsOk
    /\ faults = 1

\* C20: a failure of the restart of wb-rules after a successful transition,
\* other than an interrupt by the user, does not change the outcome: the
\* process exits with status 0 and the target configuration stays in place.
C20_RestartFailureSwallowed ==
    (RestartFailedAfterCommit /\ raisedIn.exc.type # "KeyboardInterrupt") =>
        (ExitStatus(ret) = 0 /\ ConfigFor(target))

\* the process has done nothing to the system
NothingDone ==
    /\ cmds = {} /\ wrote = {} /\ removed = {} /\ fs = fs0
    /\ masked = {} /\ held = {} /\ aptCache = "present" /\ atexitReg = <<>>

\* less than 300 MB free for the package cache or less than 150 MB free
\* for the system
LowFreeSpace ==
    \/ free.cache.f_bavail * free.cache.f_bsize < 300 * 1048576
    \/ free.system.f_bavail * free.system.f_bsize < 150 * 1048576

C21_LowSpaceStop ==
    /\ entry = "bullseye" /\ phase = "exited"
    /\ LowFreeSpace /\ ret = RetInt(1) /\ NothingDone /\ probed = {}

\* get_target_state has been applied to the state read from the files
TargetComputed == entry = "fn" /\ stage = "get_target_state"

\* the request asks for a prefix and for the default repository at once
ConflictingRequest == args.reset_url /\ args.prefix # NoString

\* C22: get_target_state with reset_url and a non-empty prefix raises
\* ImpossibleUpdateError, whatever the current state and the requested
\* release are, produces no state and touches no file.
C22_ConflictingRequestRejected ==
    (TargetComputed /\ ConflictingRequest) =>
        /\ exc = Exc("ImpossibleUpdateError")
        /\ target = NoState
        /\ ret = Unset
        /\ fs = fs0 /\ wrote = {} /\ removed = {} /\ cmds = {}

\* a conflicting request whose prefix is only a slash, on an inconsistent
\* system with a prefix of its own
C22_Witness ==
    /\ TargetComputed /\ ConflictingRequest
    /\ args.prefix = <<"/">>
    /\ args.target_release = <<"stable">>
    /\ current.repo_prefix = <<"my", "/", "prefix">>
    /\ ~current.consistent
    /\ exc = Exc("ImpossibleUpdateError")

\* C23 as stated: the prefix of the result is the requested prefix when one
\* is requested, and the current prefix when none is.
C23_PrefixAsRequested ==
    (TargetComputed /\ ~ConflictingRequest /\ ~args.reset_url) =>
        target.repo_prefix = (IF args.prefix # NoString THEN args.prefix
                              ELSE current.repo_prefix)

\* C23: for a request that does not conflict, get_target_state returns the
\* state whose prefix is the empty one under reset_url, else the requested
\* prefix if non-empty, else the current prefix, without its leading and
\* trailing spaces and slashes; whose suite is the requested release if
\* non-empty, else the current suite; whose target path is the current one;
\* and whose consistent field is true.  The result is a function of the
\* inputs alone.
C23_TargetStateFields ==
    (TargetComputed /\ ~ConflictingRequest) =>
        /\ exc = NoExc
        /\ target.repo_prefix =
              (IF args.reset_url THEN <<>>
               ELSE IF args.prefix # NoString THEN Strip(args.prefix, {" ", "/"})
               ELSE Strip(current.repo_prefix, {" ", "/"}))
        /\ target.suite = (IF args.target_release # NoString
                           THEN args.target_release ELSE current.suite)
        /\ target.target = current.target
        /\ target.consistent = TRUE
        /\ fs = fs0 /\ wrote = {}

\* a new suite and a prefix written with slashes around it are requested on
\* an inconsistent system
C23_Witness ==
    /\ TargetComputed
    /\ ~current.consistent /\ current.suite = <<"testing">>
    /\ current.repo_prefix = <<"my", "/", "prefix">>
    /\ args.prefix = <<"/", "my", "/", "prefix", "/">>
    /\ args.target_release = <<"stable">>
    /\ target = SystemState(<<"stable">>, current.target, <<"my", "/", "prefix">>, TRUE)

\* the current suite is requested again and no prefix is asked for
SameSuiteRequested ==
    /\ TargetComputed
    /\ ~args.reset_url /\ args.prefix = NoString
    /\ args.target_release = current.suite

\* C24: computing the target for the current suite, with no prefix request,
\* from a state read from the persisted files gives that state with
\* consistent set to true.
C24_Idempotent ==
    SameSuiteRequested => target = [current EXCEPT !.consistent = TRUE]

\* the same for the release files whose REPO_PREFIX has no slash or space
\* around it
C24_IdempotentOnTrimmedPrefix ==
    (SameSuiteRequested
        /\ current.repo_prefix = Strip(current.repo_prefix, {" ", "/"}))
    => target = [current EXCEPT !.consistent = TRUE]

\* the repository URL of the sources list ends with "/" and `path'
SourcesListPath(path) ==
    LET line == DebLine(SourcesList.lines)
        url == Split(line, " ", 4)[2]
        n == Len(url)
        k == Len(path) + 1
    IN  /\ Len(Split(line, " ", 4)) >= 3
        /\ n >= k
        /\ SubSeq(url, n - k + 1, n) = <<"/">> \o path

\* C25: in a release switch or a packages reset, however it ends, the
\* target path does not change: the current state, the state computed by
\* get_target_state and every sources list on disk that names a repository
\* (a write cut short leaves an empty file) carry the target path of the
\* release-identity file.
C25_TargetPathPreserved ==
    entry = "release" =>
        /\ current # NoState => current.target = relFile.target
        /\ target # NoState => target.target = relFile.target
        /\ DebLine(SourcesList.lines) # <<>> => SourcesListPath(relFile.target)

\* a switch to another suite and another prefix has written the sources
\* list, with the target path it had
C25_Witness ==
    /\ entry = "release"
    /\ WB_SOURCES_LIST_FILENAME \in wrote
    /\ target.suite # current.suite
    /\ target.repo_prefix # current.repo_prefix
    /\ target.target = current.target
    /\ SourcesList # fs0[WB_SOURCES_LIST_FILENAME]
    /\ SourcesListPath(<<"wb6", "/", "stretch">>)

\* the major transition has written a sources list with another target path
C25_TransitionChangesPath ==
    /\ entry = "bullseye"
    /\ WB_SOURCES_LIST_FILENAME \in wrote
    /\ relFile.target = <<"wb6", "/", "stretch">>
    /\ SourcesListPath(<<"wb6", "/", "bullseye">>)

\* make_new_state has been applied to the state read from the files
NewStateMade == entry = "fn" /\ stage = "make_new_state"

\* the part of a path before its first slash
LeadingComponent(path) ==
    IF \E i \in 1..Len(path) : path[i] = "/"
    THEN SubSeq(path, 1, (CHOOSE i \in 1..Len(path) :
                             /\ path[i] = "/"
                             /\ \A j \in 1..(i - 1) : path[j] # "/") - 1)
    ELSE path

\* C26: make_new_state keeps the leading component of the target path,
\* puts bullseye in place of the rest of the path, and leaves suite, prefix
\* and consistent as they are; applied to its own result it changes
\* nothing.
C26_NewStateKeepsControllerVersion ==
    /\ NewStateMade =>
          /\ target.target = LeadingComponent(current.target) \o <<"/", "bullseye">>
          /\ target.suite = current.suite
          /\ target.repo_prefix = current.repo_prefix
          /\ target.consistent = current.consistent
          /\ fs = fs0 /\ wrote = {} /\ exc = NoExc
    /\ (entry = "fn" /\ stage = "make_new_state_again") => target = current

\* a path of three components on an inconsistent system with a stored
\* prefix: only the first component is kept
C26_Witness ==
    /\ NewStateMade
    /\ current.target = <<"wb5", "/", "stretch", "/", "x">>
    /\ target.target = <<"wb5", "/", "bullseye">>
    /\ current.repo_prefix = <<"/", "old", "/">>
    /\ ~current.consistent

\* the new state of a new state is that state
C26_AppliedTwice ==
    /\ entry = "fn" /\ stage = "make_new_state_again"
    /\ target = current
    /\ target.target = <<"wb6", "/", "bullseye">>

\* `s' neither starts nor ends with one of `chars'
Trimmed(s, chars) == s = <<>> \/ (s[1] \notin chars /\ s[Len(s)] \notin chars)

\* C27: the prefix of every state returned by get_target_state has no
\* slash and no whitespace at either end.
C27_PrefixTrimmed ==
    (TargetComputed /\ exc = NoExc) =>
        Trimmed(target.repo_prefix, Whitespace \cup {"/"})

\* the same for the slash and the space character alone
C27_NoSlashOrSpaceAround ==
    (TargetComputed /\ exc = NoExc) => Trimmed(target.repo_prefix, {" ", "/"})

\* the sources list was generated for the computed state and the suite was
\* read back from it
ReadBack ==
    /\ entry = "fn" /\ stage = "read_apt_sources_list_suite"
    /\ WB_SOURCES_LIST_FILENAME \in wrote

\* C28: the suite read by read_apt_sources_list_suite from the sources list
\* that generate_sources_list wrote for a state is the suite of that state.
C28_SuiteRoundTrip ==
    (ReadBack /\ target.suite # NoString) =>
        (exc = NoExc /\ ret.kind = "str" /\ ret.v = target.suite)

\* the same for the states whose prefix holds no space character
C28_SuiteRoundTripWithoutSpace ==
    (ReadBack /\ target.suite # NoString
        /\ \A i \in 1..Len(target.repo_prefix) : target.repo_prefix[i] # " ")
    => (exc = NoExc /\ ret.kind = "str" /\ ret.v = target.suite)

\* release_exists has been called and the probe got the one outcome in
\* `probed'
Probed == entry = "fn" /\ stage = "release_exists"

\* C29: release_exists returns true for a 2xx response, returns false
\* without raising for every 4xx response, and raises for every other
\* outcome (3xx and 5xx responses, no response at all); it returns false
\* only for a 4xx response.
C29_ProbeOutcomes ==
    Probed =>
        \E status \in probed :
            /\ probed = {status}
            /\ (status \in 200..299) => (ret = RetBool(TRUE) /\ exc = NoExc)
            /\ (status \in 400..499) => (ret = RetBool(FALSE) /\ exc = NoExc)
            /\ (status \notin (200..299) \cup (400..499)) =>
                   /\ ret = Unset
                   /\ exc = Exc(IF status = 0 THEN "URLError" ELSE "HTTPError")
            /\ (ret = RetBool(FALSE)) => status \in 400..499
            /\ fs = fs0 /\ wrote = {} /\ cmds = {}

\* the server answered 503 and the call raised
C29_Witness ==
    /\ Probed
    /\ probed = {503}
    /\ exc = Exc("HTTPError")
    /\ ret = Unset

\* the server answered 499 and the call returned false
C29_ClientErrorIsAbsent ==
    Probed /\ probed = {499} /\ ret = RetBool(FALSE) /\ exc = NoExc

\* enough_free_space has been called
SpaceChecked == entry = "fn" /\ stage = "enough_free_space"

\* C30: enough_free_space returns true exactly when the package-cache
\* filesystem has at least 300 MB free and the system filesystem at least
\* 150 MB, free space being available blocks times block size; it changes
\* nothing.
C30_EnoughFreeSpace ==
    SpaceChecked =>
        /\ ret.kind = "bool"
        /\ (ret.v = 1) <=>
              /\ free.cache.f_bavail * free.cache.f_bsize >= 300 * 1048576
              /\ free.system.f_bavail * free.system.f_bsize >= 150 * 1048576
        /\ exc = NoExc
        /\ fs = fs0 /\ wrote = {} /\ removed = {} /\ cmds = {}

\* the cache has room to spare and the system filesystem is one byte short
C30_Witness ==
    /\ SpaceChecked
    /\ free.cache = FakeStatvfs(1024 * 2048, 512)
    /\ free.system = FakeStatvfs(150 * 1048576 - 1, 1)
    /\ ret = RetBool(FALSE)

\* both filesystems hold exactly their thresholds
C30_ExactlyEnough ==
    /\ SpaceChecked
    /\ free.cache = FakeStatvfs(300 * 2048, 512)
    /\ free.system = FakeStatvfs(150 * 2048, 512)
    /\ ret = RetBool(TRUE)

\* stage 2 of a release switch has exited, and the first thing that went
\* wrong in it was apt-get autoremove, after the upgrade had succeeded
AutoremoveFailed ==
    /\ Stage2Exited /\ target # current
    /\ DistUpgradeDone
    /\ raisedIn.fn = "update_second_stage" /\ raisedIn.op = "run_apt"

\* C31: when autoremove fails in stage 2 of a release switch, after the
\* upgrade succeeded and the restore was unregistered, the restore is not
\* run: at process exit the sources list and the release pin file hold the
\* target configuration, the transient preferences file written by the
\* stage is gone, the exit status is not 0 and wb-rules was not restarted.
C31_FailureAfterCommitKeepsTarget ==
    AutoremoveFailed =>
        /\ ConfigFor(target)
        /\ "_restore_system_config" \notin fired
        /\ "_cleanup_tmp_apt_preferences" \in fired
        /\ ~fs[WB_TEMP_UPGRADE_PREFERENCES_FILENAME].exists
        /\ ExitStatus(ret) # 0
        /\ <<"invoke-rc.d", "wb-rules", "restart">> \notin cmds

\* autoremove exited with status 2 after a switch to another suite; nothing
\* else failed
C31_Witness ==
    /\ AutoremoveFailed
    /\ faults = 1
    /\ raisedIn.exc = CalledProcessError(2)
    /\ ConfigFor(target) /\ ~ConfigFor(current)
    /\ WB_TEMP_UPGRADE_PREFERENCES_FILENAME \in removed
    /\ ~fs[WB_TEMP_UPGRADE_PREFERENCES_FILENAME].exists
    /\ ret = RetInt(2)

\* the process is about to start the next instance of the tool
AtLaunch == At("subprocess.run") \/ At("os.execvp")

\* the process that started the next instance with subprocess.run is
\* running again, the next instance having exited
ParentResumed == parent = "resumed"

\* C33: at the handoff only one process acts on the configuration.  At the
\* launch the stage-1 process has no function registered with atexit and is
\* inside no block with a finally or except clause of its own; the process
\* that waits in subprocess.run takes no step until the next instance has
\* exited, and from then to its own exit it writes and removes no file and
\* runs no command.  A process replaced by os.execvp does not exist any
\* more.
C33_OneProcessActs ==
    /\ AtLaunch =>
          /\ phase = "run"
          /\ atexitReg = <<>>
          /\ \A i \in 1..Len(frames) : frames[i].kind = "handler"
          /\ At("subprocess.run") =>
                \A i \in 1..Len(frames) : frames[i].ops = <<>>
    /\ ParentResumed =>
          /\ wrote = {} /\ removed = {} /\ cmds = {} /\ probed = {}
          /\ fs = fs0
          /\ atexitReg = <<>> /\ fired = {}
          /\ launches # <<>>
    /\ parent = "waiting" => (launches # <<>> /\ args.second_stage)

\* stage 2 failed with status 2; stage 1 has exited with the same status
\* and touched nothing on the way
C33_Witness ==
    /\ ParentResumed /\ phase = "exited"
    /\ entry = "release"
    /\ ret = RetInt(2)
    /\ wrote = {} /\ cmds = {} /\ fs = fs0

\* the major transition is about to replace its process
C33_AtExec ==
    /\ At("os.execvp") /\ entry = "bullseye"
    /\ atexitReg = <<>>
    /\ ~fs[TEMP_APT_PREFERENCE_FOR_TOOL].exists

\* the process of the major transition is about to run the command `argv'
AboutToRun(argv) ==
    /\ entry = "bullseye" /\ phase = "run" /\ code # <<>>
    /\ \/ Cur.op = "run_apt" /\ <<"apt-get">> \o Cur.a = argv
       \/ Cur.op = "run_cmd" /\ Cur.a = argv

Systemctl(verb, service) == <<"systemctl", verb, service>>
AptInstall(package) == <<"apt-get", "install", package>>
DistUpgrade == <<"apt-get", "dist-upgrade">>

\* the dist-upgrade passes the process has still to run
PassesLeft ==
    Cardinality({i \in 1..Len(code) :
                    code[i].op = "run_apt" /\ code[i].a = <<"dist-upgrade">>})

UserFacingServices ==
    {"nginx.service", "mosquitto.service", "hostapd.service", "wb-mqtt-mbgate.service"}

\* the services that are enabled or restarted after the upgrade
ServicesBroughtUp ==
    { Systemctl("enable", s) :
        s \in {"hostapd.service", "wb-configs.service", "wb-configs-early.service"} }
    \cup { Systemctl("restart", s) :
        s \in {"nginx.service", "mosquitto.service", "wb-mqtt-mbgate.service"} }

\* C34: in the protected scope of the major transition openssh-server is
\* installed while ssh.service is masked; ssh.service is unmasked and then
\* restarted; then python-is-python2 is installed; then the two
\* dist-upgrade passes run, the second after the first has succeeded, both
\* with the four user-facing services masked; and these services are all
\* unmasked before one of them is enabled or restarted.
C34_UpgradeOrder ==
    /\ AboutToRun(AptInstall("openssh-server")) =>
          /\ "ssh.service" \in masked
          /\ Systemctl("mask", "ssh.service") \in cmdsOk
          /\ Systemctl("restart", "ssh.service") \notin cmds
          /\ AptInstall("python-is-python2") \notin cmds
    /\ AboutToRun(Systemctl("restart", "ssh.service")) =>
          /\ AptInstall("openssh-server") \in cmdsOk
          /\ Systemctl("unmask", "ssh.service") \in cmdsOk
          /\ "ssh.service" \notin masked
          /\ AptInstall("python-is-python2") \notin cmds
    /\ AboutToRun(AptInstall("python-is-python2")) =>
          /\ Systemctl("restart", "ssh.service") \in cmdsOk
          /\ DistUpgrade \notin cmds
    /\ AboutToRun(DistUpgrade) =>
          /\ AptInstall("python-is-python2") \in cmdsOk
          /\ UserFacingServices \subseteq masked
          /\ \A s \in UserFacingServices : Systemctl("mask", s) \in cmdsOk
          /\ ServicesBroughtUp \cap cmds = {}
          /\ PassesLeft \in {1, 2}
          /\ PassesLeft = 2 => DistUpgrade \notin cmds
          /\ PassesLeft = 1 => DistUpgrade \in cmdsOk
    /\ \A c \in ServicesBroughtUp :
          AboutToRun(c) =>
              /\ DistUpgrade \in cmdsOk
              /\ PassesLeft = 0
              /\ masked \cap UserFacingServices = {}
              /\ \A s \in UserFacingServices : Systemctl("unmask", s) \in cmdsOk

\* the second pass is about to start, step by step confirmed, with the
\* four services masked and ssh.service running unmasked
C34_Witness ==
    /\ AboutToRun(DistUpgrade)
    /\ PassesLeft = 1
    /\ args.confirm_steps
    /\ masked = UserFacingServices
    /\ Systemctl("restart", "ssh.service") \in cmdsOk

\* hostapd is about to be enabled, unmasked
C34_BroughtUpUnmasked ==
    /\ AboutToRun(Systemctl("enable", "hostapd.service"))
    /\ masked = {}

\* the protected scope of actual_upgrade has been left without an exception
ScopeLeftNormally ==
    /\ { <<"apply_new_system_config", "normal">>, <<"make_temp_apt_configs", "normal">>,
         <<"hold_packages", "normal">> } \subseteq scopes
    /\ \A s \in scopes : s[2] = "normal" \/ s[1] = "upgrade_new_debian_release"

AptMarkAuto == <<"apt-mark", "auto", "python-is-python2">>
PurgeOldConfigs == <<"apt-get", "purge", "wb-configs-stretch">>
Autoremove == <<"apt-get", "autoremove">>

\* the steps after the scope, in the order of the source
PostUpgradeSteps ==
    << AptMarkAuto, PurgeOldConfigs, Autoremove, AptInstall("wb-release-info"),
       AptInstall("wb-update-manager") >>

C35_NoFlagOnFailure ==
    /\ entry = "bullseye" /\ stage = "bullseye" /\ phase = "exited"
    /\ AptInstall("wb-update-manager") \in cmds \ cmdsOk
    /\ AptInstall("wb-release-info") \in cmdsOk
    /\ ~fs[UPDATE_DONE_FLAG].exists

\* the with-block of make_temp_apt_configs has been left, somehow
TempConfigsScopeLeft ==
    /\ entry = "bullseye"
    /\ \E s \in scopes : s[1] = "make_temp_apt_configs"

TempConfigsGone ==
    /\ ~fs[TEMP_UPGRADE_SOURCES_LIST].exists
    /\ ~fs[TEMP_UPGRADE_APT_PREFERENCES].exists

C36_SuccessKeepsCache ==
    /\ TempConfigsScopeLeft /\ ScopeLeftNormally
    /\ {TEMP_UPGRADE_SOURCES_LIST, TEMP_UPGRADE_APT_PREFERENCES} \subseteq removed
    /\ TempConfigsGone /\ aptCache = "present"

\* the process is the one that upgrades the tool for the major transition
InToolStage == entry = "bullseye" /\ stage = "tool"

ToolPin == fs[TEMP_APT_PREFERENCE_FOR_TOOL]

\* C37: in stage 1 of the major transition the temporary pin for the tool
\* is in place, complete, whenever apt-get update or the install of
\* wb-update-manager is about to run; it has been removed, after both
\* succeeded, when the process image is replaced, so the next process
\* starts without it; and it is gone at process exit whenever one of the
\* two commands failed or was interrupted.
C37_ToolPinScope ==
    /\ InToolStage =>
          /\ (AboutToRun(<<"apt-get", "update">>)
                \/ AboutToRun(AptInstall("wb-update-manager"))) =>
                 (ToolPin = ToolPreferences
                    /\ TEMP_APT_PREFERENCE_FOR_TOOL \notin removed)
          /\ At("os.execvp") =>
                 /\ ~ToolPin.exists
                 /\ TEMP_APT_PREFERENCE_FOR_TOOL \in removed
                 /\ ToolUpgradeCommands \subseteq cmdsOk
          /\ (phase = "exited" /\ raisedIn.op = "run_apt") =>
                 /\ ~ToolPin.exists
                 /\ TEMP_APT_PREFERENCE_FOR_TOOL \in removed
    /\ (entry = "bullseye" /\ launches # <<>>) => ~ToolPin.exists

\* the install of the tool exited with status 2: the pin is gone at exit
C37_Witness ==
    /\ InToolStage /\ phase = "exited"
    /\ raisedIn.op = "run_apt" /\ raisedIn.fn = "apt_install"
    /\ raisedIn.exc = CalledProcessError(2)
    /\ <<"apt-get", "update">> \in cmdsOk
    /\ TEMP_APT_PREFERENCE_FOR_TOOL \in removed
    /\ ~ToolPin.exists

\* the pin is in place while the tool is installed
C37_PinInPlace ==
    /\ InToolStage /\ AboutToRun(AptInstall("wb-update-manager"))
    /\ ToolPin = ToolPreferences

\* writing the pin failed and left an empty file behind
C37_PinLeftByFailedWrite ==
    /\ InToolStage /\ phase = "exited"
    /\ raisedIn.fn = "create_temp_apt_policy_for_tool"
    /\ ToolPin.exists

\* C38: the log handlers of a process are closed when it launches the next
\* instance of the tool, with subprocess.run on the ordinary path and with
\* os.execvp in the major transition; closing them is the last thing the
\* process does before the launch, so it does nothing, and logs nothing,
\* between the two.
C38_LogClosedBeforeLaunch ==
    /\ AtLaunch => ~logOpen
    /\ At("close_log_handlers") =>
          /\ logOpen
          /\ Len(code) >= 2
          /\ code[2].op \in {"subprocess.run", "os.execvp"}
    /\ (~logOpen /\ phase = "run" /\ parent = "none" /\ raisedIn.op # "os.execvp")
          => AtLaunch
    /\ (phase = "route" /\ launches # <<>>) => logOpen

\* stage 1 of a release switch with a log file is about to start stage 2
C38_Witness ==
    /\ At("subprocess.run") /\ entry = "release"
    /\ args.log_filename = LogFile
    /\ ~logOpen
    /\ DistUpgradeDone

\* the major transition is about to replace its process
C38_ClosedAtExec ==
    At("os.execvp") /\ entry = "bullseye" /\ ~logOpen

(***************************************************************************)
(* C39: run_system_update and consent                                      *)
(***************************************************************************)

IndexUpdate == <<"apt-get", "update">>

SimulatedUpgrade == <<"apt-get", "dist-upgrade", "-s", "-V">>

RealUpgrade == <<"apt-get", "dist-upgrade">>

InSystemUpdate(kind) == entry = "release" /\ At(kind) /\ Cur.fn = "run_system_update"

AboutToUpgrade == InSystemUpdate("run_apt") /\ Cur.a = <<"dist-upgrade">>

AboutToSimulate == InSystemUpdate("run_apt") /\ Cur.a = <<"dist-upgrade", "-s", "-V">>

\* C39: in a release run the real dist-upgrade is started only after the
\* package-index update has succeeded and, in interactive mode, after the
\* simulated dist-upgrade has succeeded and the confirmation that follows it
\* has been answered; the simulation is directly followed by the
\* confirmation and the confirmation by the real dist-upgrade; a failed
\* index update, a failed simulation or a declined confirmation leaves the
\* real dist-upgrade unstarted; with assume_yes there is no simulation and
\* no confirmation inside run_system_update.
C39_NoUpgradeWithoutConsent ==
    entry = "release" =>
        /\ (AboutToUpgrade \/ RealUpgrade \in cmds) =>
              /\ IndexUpdate \in cmdsOk
              /\ args.yes \/ SimulatedUpgrade \in cmdsOk
        /\ AboutToUpgrade => RealUpgrade \notin cmds
        /\ AboutToSimulate =>
              /\ ~args.yes
              /\ IndexUpdate \in cmdsOk
              /\ RealUpgrade \notin cmds
              /\ Len(code) >= 3
              /\ code[2].op = "user_confirm" /\ code[2].fn = "run_system_update"
              /\ code[3].op = "run_apt" /\ code[3].a = <<"dist-upgrade">>
        /\ InSystemUpdate("user_confirm") =>
              /\ ~args.yes /\ ~Cur.b
              /\ SimulatedUpgrade \in cmdsOk
              /\ RealUpgrade \notin cmds
              /\ Len(code) >= 2
              /\ code[2].op = "run_apt" /\ code[2].a = <<"dist-upgrade">>
        /\ (IndexUpdate \in cmds \ cmdsOk \/ SimulatedUpgrade \in cmds \ cmdsOk)
              => RealUpgrade \notin cmds
        /\ (raisedIn.fn = "run_system_update" /\ raisedIn.op = "user_confirm")
              => RealUpgrade \notin cmds
        /\ args.yes => SimulatedUpgrade \notin cmds

\* an interactive run is about to start the real dist-upgrade
C39_Witness == AboutToUpgrade /\ ~args.yes /\ SimulatedUpgrade \in cmdsOk /\ stage = "second"

\* the confirmation inside run_system_update was declined
C39_Declined ==
    /\ entry = "release" /\ phase = "exited"
    /\ raisedIn.fn = "run_system_update" /\ raisedIn.op = "user_confirm"
    /\ SimulatedUpgrade \in cmdsOk

\* with assume_yes the real dist-upgrade follows the index update
C39_AssumeYes == AboutToUpgrade /\ args.yes /\ cmds = {IndexUpdate}

(***************************************************************************)
(* C40: reconfiguration of wb-configs                                      *)
(***************************************************************************)

\* a successful command that reconfigures the package
Reconfigured(package) ==
    \E c \in cmdsOk : c[1] = "dpkg-reconfigure" /\ c[Len(c)] = package

\* C40: a major transition that has exited with RETCODE_OK has purged
\* wb-configs-stretch and has reconfigured wb-configs.
C40_ReconfiguredAfterPurge ==
    (entry = "bullseye" /\ stage = "bullseye" /\ phase = "exited"
        /\ ret = RetInt(RETCODE_OK)) =>
        /\ PurgeOldConfigs \in cmdsOk
        /\ Reconfigured("wb-configs")

(***************************************************************************)
(* C32: what a failed transition of release.py leaves behind               *)
(***************************************************************************)

\* the transition of release.py has exited
DebianReleaseExited == entry = "update_debian_release" /\ phase = "exited"

\* ... and one external command of it failed, nothing else did
OneExternalCommandFailed ==
    /\ faults = 1
    /\ raisedIn.fn \in {"release.upgrade_new_debian_release", "run_system_update"}
    /\ raisedIn.op \in {"run_apt", "run_cmd"}

TempUpstreamList == fs[TEMP_DEBIAN_UPSTREAM_LIST]

\* C32: when the transition of release.py has exited after one of its
\* external commands failed, no service is masked and the temporary
\* upstream repository list is not there.
C32_NothingMaskedNoTempList ==
    (DebianReleaseExited /\ OneExternalCommandFailed) =>
        /\ masked = {}
        /\ ~TempUpstreamList.exists

\* the part about the list alone: the temporary upstream list is gone
\* after any exit that an external command caused
C32_TempListRemoved ==
    (DebianReleaseExited /\ raisedIn.op \in {"run_apt", "run_cmd"}) =>
        ~TempUpstreamList.exists

\* the purge of wb-configs-stretch failed with the four services masked
C32_FailedWhileMasked ==
    /\ DebianReleaseExited /\ OneExternalCommandFailed
    /\ PurgeOldConfigs \in cmds \ cmdsOk
    /\ masked = {MASKED_SERVICES[i] : i \in 1..Len(MASKED_SERVICES)}
    /\ "remove_tmp_debian_upstream" \in fired

=============================================================================
